---------------------------- MODULE Spec2Model ----------------------------
(***************************************************************************)
(* A model of the towers (skyscraper) puzzle solver: the Board of          *)
(* src/main.go with its mutation primitives, the permutation generator,    *)
(* the propagation rules and pattern heuristics of src/solve.go, and the   *)
(* AutoSolve driver.                                                       *)
(*                                                                         *)
(* Go slices that are indexed by row, column or slot (Grid, Allowed,       *)
(* ObsSorted, RowPerms, ColPerms, Used) are functions over 0..n-1, as in   *)
(* the code.  Go slices that are lists (Perms, a permutation, a list of    *)
(* permutation indices, Observers) are sequences; At(s, i) reads the       *)
(* element the code calls s[i].  A map[int]interface{} is a set.           *)
(***************************************************************************)
EXTENDS Integers, Sequences, FiniteSets, TLC

\* ------------------------------------------------------------------ bounds
\* Largest board size of the solver specification.
MaxSize == 4
\* Number of Latin squares (per size) puzzles are drawn from.
MaxSquares == 5
\* Largest number of pre-filled cells (a prefix of the main diagonal).
MaxPrefill == 2
\* Largest board size of the puzzles with one overwritten entry.
MaxBadSize == 3

\* --------------------------------------------------------------- constants
OBS_ROW == 0
OBS_COL == 1
OBS_FWD == 0
OBS_BWD == 1
EMPTY == 0

VARIABLES
    inputs,     \* the parsed (Size+2) x (Size+2) integer grid BoardFromString reads
    sol,        \* auxiliary: the Latin square the puzzle was drawn from
    Grid, Allowed, NumEmpty, Size, Observers, ObsSorted, Perms, RowPerms, ColPerms,
    panicked,   \* TRUE once AddObserver has panicked
    pc,         \* position of the caller: in AutoSolve, or "api" between calls
    changed,    \* AutoSolve's local variable
    n,          \* AutoSolve's loop variable of the two heuristic loops
    last,       \* the last call made, its arguments and what it returned
    calls       \* number of calls made so far

boardVars == <<Grid, Allowed, NumEmpty, Size, Observers, ObsSorted, Perms, RowPerms, ColPerms>>
vars == <<inputs, sol, Grid, Allowed, NumEmpty, Size, Observers, ObsSorted, Perms,
          RowPerms, ColPerms, panicked, pc, changed, n, last, calls>>

\* ----------------------------------------------------------------- helpers
At(s, i) == s[i + 1]

Min(a, b) == IF a <= b THEN a ELSE b

\* A nil *Observer.
NilObs == [Type |-> -1, Index |-> -1, Direction |-> -1, Count |-> -1]

\* A nil *[]int, and a pointer to a list of permutation indices.
NilList == [nil |-> TRUE, val |-> <<>>]
PtrTo(list) == [nil |-> FALSE, val |-> list]

\* The Board value the variables hold.
Board ==
    [Grid |-> Grid, Allowed |-> Allowed, NumEmpty |-> NumEmpty, Size |-> Size,
     Observers |-> Observers, ObsSorted |-> ObsSorted, Perms |-> Perms,
     RowPerms |-> RowPerms, ColPerms |-> ColPerms]

\* Board{}: the zero value.
ZeroBoard ==
    [Grid |-> <<>>, Allowed |-> <<>>, NumEmpty |-> 0, Size |-> 0,
     Observers |-> <<>>, ObsSorted |-> <<>>, Perms |-> <<>>,
     RowPerms |-> <<>>, ColPerms |-> <<>>]

StoreBoard(b) ==
    /\ Grid' = b.Grid
    /\ Allowed' = b.Allowed
    /\ NumEmpty' = b.NumEmpty
    /\ Size' = b.Size
    /\ Observers' = b.Observers
    /\ ObsSorted' = b.ObsSorted
    /\ Perms' = b.Perms
    /\ RowPerms' = b.RowPerms
    /\ ColPerms' = b.ColPerms

\* ----------------------------------------------------- permutation generator
\* permute without p.Used[i] = false after the recursive call.
RECURSIVE permuteKeepsUsed(_, _, _)
permuteKeepsUsed(p, depth, i) ==
    IF depth = p.R THEN <<p.Seq>>
    ELSE IF i >= p.N THEN <<>>
    ELSE IF p.Used[i] THEN permuteKeepsUsed(p, depth, i + 1)
    ELSE LET q == [p EXCEPT !.Seq[depth + 1] = i + p.Lowest, !.Used[i] = TRUE]
             back == [q EXCEPT !.Seq[depth + 1] = 0]
         IN  permuteKeepsUsed(q, depth + 1, 0) \o permuteKeepsUsed(back, depth, i + 1)

\* permuter.permute: what the for loop of one call at `depth`, from index i
\* on, appends to *output (the whole call is permute(p, depth, 0)).
RECURSIVE permute(_, _, _)
permute(p, depth, i) ==
    IF depth = p.R THEN <<p.Seq>>
    ELSE IF i >= p.N THEN <<>>
    ELSE IF p.Used[i] THEN permute(p, depth, i + 1)
    ELSE LET q == [p EXCEPT !.Seq[depth + 1] = i + p.Lowest, !.Used[i] = TRUE]
             back == [q EXCEPT !.Seq[depth + 1] = 0, !.Used[i] = FALSE]
         IN  permute(q, depth + 1, 0) \o permute(back, depth, i + 1)

Permute(low, high, r) ==
    LET popSize == (high - low) + 1
        p == [N |-> popSize, Lowest |-> low, R |-> r,
              Seq |-> [k \in 1..r |-> 0],
              Used |-> [k \in 0..(popSize - 1) |-> FALSE]]
    IN  permute(p, 0, 0)

NPermuteR(m, r) == Permute(1, m, r)

PermuteN(m) == Permute(1, m, m)

\* ------------------------------------------------------ visibility evaluator
\* One scan loop of PermFitsObs: from index i in steps of d, with the early
\* return as soon as more than `count` maxima are seen.
RECURSIVE FitsScan(_, _, _, _, _, _)
FitsScan(p, i, d, highest, vis, count) ==
    IF i < 0 \/ i >= Len(p) THEN vis = count
    ELSE IF At(p, i) > highest
         THEN IF vis + 1 > count THEN FALSE
              ELSE FitsScan(p, i + d, d, At(p, i), vis + 1, count)
         ELSE FitsScan(p, i + d, d, highest, vis, count)

\* PermFitsObs that ignores the backward observer.
PermFitsObsForwardOnly(p, fwd, bwd) ==
    fwd # NilObs => FitsScan(p, 0, 1, 0, 0, fwd.Count)

PermFitsObs(p, fwd, bwd) ==
    /\ (fwd # NilObs => FitsScan(p, 0, 1, 0, 0, fwd.Count))
    /\ (bwd # NilObs => FitsScan(p, Len(p) - 1, -1, 0, 0, bwd.Count))

PermsForObs(b, fwd, bwd) ==
    IF fwd = NilObs /\ bwd = NilObs THEN NilList
    ELSE PtrTo(SelectSeq([k \in 1..Len(b.Perms) |-> k - 1],
                         LAMBDA i : PermFitsObs(At(b.Perms, i), fwd, bwd)))

PopulateRowColPerms(b) ==
    [b EXCEPT
        !.RowPerms = [ri \in 0..(b.Size - 1) |->
                        PermsForObs(b, b.ObsSorted[2 * ri], b.ObsSorted[2 * ri + 1])],
        !.ColPerms = [ci \in 0..(b.Size - 1) |->
                        PermsForObs(b, b.ObsSorted[2 * b.Size + 2 * ci],
                                       b.ObsSorted[2 * b.Size + 2 * ci + 1])]]

Get(b, ri, ci) == b.Grid[ri][ci]

\* The scan loop of ObserverSatisfied: i cells scanned so far.
RECURSIVE ObsScan(_, _, _, _, _, _, _, _)
ObsScan(b, i, ri, ci, dr, dc, highest, vis) ==
    IF i >= b.Size THEN vis
    ELSE LET val == Get(b, ri, ci)
         IN  IF val > highest
             THEN ObsScan(b, i + 1, ri + dr, ci + dc, dr, dc, val, vis + 1)
             ELSE ObsScan(b, i + 1, ri + dr, ci + dc, dr, dc, highest, vis)

\* ObserverSatisfied without the two tests of o.Direction: it always scans
\* from index 0.
ObserverSatisfiedForward(b, o) ==
    LET ri == IF o.Type = OBS_ROW THEN o.Index ELSE 0
        ci == IF o.Type = OBS_COL THEN o.Index ELSE 0
        dr == IF o.Type = OBS_COL THEN 1 ELSE 0
        dc == IF o.Type = OBS_ROW THEN 1 ELSE 0
    IN  ObsScan(b, 0, ri, ci, dr, dc, 0, 0) = o.Count

ObserverSatisfied(b, o) ==
    LET bwd == o.Direction = OBS_BWD
        ri == IF o.Type = OBS_ROW THEN o.Index
              ELSE IF o.Type = OBS_COL /\ bwd THEN b.Size - 1 ELSE 0
        ci == IF o.Type = OBS_ROW THEN (IF bwd THEN b.Size - 1 ELSE 0)
              ELSE IF o.Type = OBS_COL THEN o.Index ELSE 0
        dr == IF o.Type = OBS_COL THEN (IF bwd THEN -1 ELSE 1) ELSE 0
        dc == IF o.Type = OBS_ROW THEN (IF bwd THEN -1 ELSE 1) ELSE 0
    IN  ObsScan(b, 0, ri, ci, dr, dc, 0, 0) = o.Count

\* AddObserver without the test of the slot: the new observer replaces the
\* one that is there.
AddObserverOverwrites(b, o) ==
    IF o.Count = 0 THEN [b |-> b, panic |-> FALSE]
    ELSE LET b1 == [b EXCEPT !.Observers = Append(b.Observers, o)]
             ind0 == IF o.Type = OBS_ROW THEN o.Index * 2
                     ELSE b.Size * 2 + (o.Index * 2)
             ind == IF o.Direction = OBS_BWD THEN ind0 + 1 ELSE ind0
         IN  [b |-> [b1 EXCEPT !.ObsSorted[ind] = o], panic |-> FALSE]

\* AddObserver: the board afterwards and whether the call panicked.
AddObserver(b, o) ==
    IF o.Count = 0 THEN [b |-> b, panic |-> FALSE]
    ELSE LET b1 == [b EXCEPT !.Observers = Append(b.Observers, o)]
             ind0 == IF o.Type = OBS_ROW THEN o.Index * 2
                     ELSE b.Size * 2 + (o.Index * 2)
             ind == IF o.Direction = OBS_BWD THEN ind0 + 1 ELSE ind0
         IN  IF b1.ObsSorted[ind] # NilObs
             THEN [b |-> b1, panic |-> TRUE]
             ELSE [b |-> [b1 EXCEPT !.ObsSorted[ind] = o], panic |-> FALSE]

\* The error Solved returns: "nil", "empty" (cells remain empty) or
\* "observer" with the first unsatisfied observer.
RECURSIVE FirstUnsatisfied(_, _)
FirstUnsatisfied(b, k) ==
    IF k > Len(b.Observers) THEN NilObs
    ELSE IF ~ObserverSatisfied(b, b.Observers[k]) THEN b.Observers[k]
    ELSE FirstUnsatisfied(b, k + 1)

\* Solved that looks for the first unsatisfied observer in the order of
\* ObsSorted (rows before columns) instead of the order of registration.
SolvedInSortedOrder(b) ==
    IF b.NumEmpty # 0 THEN [err |-> "empty", obs |-> NilObs]
    ELSE LET bad == {k \in DOMAIN b.ObsSorted :
                        b.ObsSorted[k] # NilObs /\ ~ObserverSatisfied(b, b.ObsSorted[k])}
         IN  IF bad # {}
             THEN [err |-> "observer",
                   obs |-> b.ObsSorted[CHOOSE k \in bad : \A j \in bad : k <= j]]
             ELSE [err |-> "nil", obs |-> NilObs]

Solved(b) ==
    IF b.NumEmpty # 0 THEN [err |-> "empty", obs |-> NilObs]
    ELSE LET o == FirstUnsatisfied(b, 1)
         IN  IF o # NilObs THEN [err |-> "observer", obs |-> o]
             ELSE [err |-> "nil", obs |-> NilObs]

\* ------------------------------------------------------ mutation primitives
IsAllowed(b, ri, ci, v) == v \in b.Allowed[ri][ci]

\* Set without the branch that counts a cell becoming empty.
SetNeverIncrements(b, ri, ci, val) ==
    IF Get(b, ri, ci) = val THEN [b |-> b, ret |-> FALSE]
    ELSE LET ne == IF Get(b, ri, ci) = EMPTY /\ val # EMPTY THEN b.NumEmpty - 1
                   ELSE b.NumEmpty
         IN  [b |-> [b EXCEPT !.NumEmpty = ne, !.Grid[ri][ci] = val], ret |-> TRUE]

Set(b, ri, ci, val) ==
    IF Get(b, ri, ci) = val THEN [b |-> b, ret |-> FALSE]
    ELSE LET ne == IF Get(b, ri, ci) # EMPTY /\ val = EMPTY THEN b.NumEmpty + 1
                   ELSE IF Get(b, ri, ci) = EMPTY /\ val # EMPTY THEN b.NumEmpty - 1
                   ELSE b.NumEmpty
         IN  [b |-> [b EXCEPT !.NumEmpty = ne, !.Grid[ri][ci] = val], ret |-> TRUE]

Unset(b, ri, ci) == Set(b, ri, ci, EMPTY)

\* Mark that strikes val in the whole row and column, the marked cell included
\* (the loops without their i != ri, i != ci tests).
MarkStrikesOwn(b, ri, ci, val) ==
    LET s == Set(b, ri, ci, val)
        inLine(r, c) == c = ci \/ r = ri
        neighborUpdated ==
            \E r \in 0..(b.Size - 1), c \in 0..(b.Size - 1) :
                inLine(r, c) /\ IsAllowed(b, r, c, val)
        al == [r \in 0..(b.Size - 1) |-> [c \in 0..(b.Size - 1) |->
                 IF r = ri /\ c = ci THEN {}
                 ELSE IF inLine(r, c) THEN b.Allowed[r][c] \ {val}
                      ELSE b.Allowed[r][c]]]
    IN  IF ~s.ret THEN [b |-> b, ret |-> FALSE, ret2 |-> FALSE]
        ELSE [b |-> [s.b EXCEPT !.Allowed = al], ret |-> TRUE, ret2 |-> neighborUpdated]

\* Mark that replaces the marked cell's candidate set by {val} instead of
\* deleting the other values from it.
MarkResetsOwn(b, ri, ci, val) ==
    LET s == Set(b, ri, ci, val)
        neighbor(r, c) == (c = ci /\ r # ri) \/ (r = ri /\ c # ci)
        neighborUpdated ==
            \E r \in 0..(b.Size - 1), c \in 0..(b.Size - 1) :
                neighbor(r, c) /\ IsAllowed(b, r, c, val)
        al == [r \in 0..(b.Size - 1) |-> [c \in 0..(b.Size - 1) |->
                 IF neighbor(r, c) THEN b.Allowed[r][c] \ {val}
                 ELSE IF r = ri /\ c = ci THEN {val} ELSE b.Allowed[r][c]]]
    IN  IF ~s.ret THEN [b |-> b, ret |-> FALSE, ret2 |-> FALSE]
        ELSE [b |-> [s.b EXCEPT !.Allowed = al], ret |-> TRUE, ret2 |-> neighborUpdated]

\* Mark without its second loop: the marked cell keeps its other candidates.
MarkKeepsOthers(b, ri, ci, val) ==
    LET s == Set(b, ri, ci, val)
        neighbor(r, c) == (c = ci /\ r # ri) \/ (r = ri /\ c # ci)
        neighborUpdated ==
            \E r \in 0..(b.Size - 1), c \in 0..(b.Size - 1) :
                neighbor(r, c) /\ IsAllowed(b, r, c, val)
        al == [r \in 0..(b.Size - 1) |-> [c \in 0..(b.Size - 1) |->
                 IF neighbor(r, c) THEN b.Allowed[r][c] \ {val} ELSE b.Allowed[r][c]]]
    IN  IF ~s.ret THEN [b |-> b, ret |-> FALSE, ret2 |-> FALSE]
        ELSE [b |-> [s.b EXCEPT !.Allowed = al], ret |-> TRUE, ret2 |-> neighborUpdated]

\* Mark that, when Set has returned false, still reports whether a neighbour
\* holds val (return false, neighborUpdated after the first loop's tests).
MarkReportsNeighbours(b, ri, ci, val) ==
    LET s == Set(b, ri, ci, val)
        neighbor(r, c) == (c = ci /\ r # ri) \/ (r = ri /\ c # ci)
        neighborUpdated ==
            \E r \in 0..(b.Size - 1), c \in 0..(b.Size - 1) :
                neighbor(r, c) /\ IsAllowed(b, r, c, val)
        al == [r \in 0..(b.Size - 1) |-> [c \in 0..(b.Size - 1) |->
                 IF neighbor(r, c) THEN b.Allowed[r][c] \ {val}
                 ELSE IF r = ri /\ c = ci
                      THEN b.Allowed[r][c] \ ((1..b.Size) \ {val})
                      ELSE b.Allowed[r][c]]]
    IN  IF ~s.ret THEN [b |-> b, ret |-> FALSE, ret2 |-> neighborUpdated]
        ELSE [b |-> [s.b EXCEPT !.Allowed = al], ret |-> TRUE, ret2 |-> neighborUpdated]

\* Mark without its first loop: no neighbour loses val.
MarkStrikesNothing(b, ri, ci, val) ==
    LET s == Set(b, ri, ci, val)
    IN  IF ~s.ret THEN [b |-> b, ret |-> FALSE, ret2 |-> FALSE]
        ELSE [b |-> [s.b EXCEPT !.Allowed[ri][ci] = @ \cap {val}],
              ret |-> TRUE, ret2 |-> FALSE]

\* Mark whose first loop visits the column of the cell but not its row.
MarkColumnOnly(b, ri, ci, val) ==
    LET s == Set(b, ri, ci, val)
        neighbor(r, c) == c = ci /\ r # ri
        neighborUpdated ==
            \E r \in 0..(b.Size - 1), c \in 0..(b.Size - 1) :
                neighbor(r, c) /\ IsAllowed(b, r, c, val)
        al == [r \in 0..(b.Size - 1) |-> [c \in 0..(b.Size - 1) |->
                 IF neighbor(r, c) THEN b.Allowed[r][c] \ {val}
                 ELSE IF r = ri /\ c = ci THEN b.Allowed[r][c] \cap {val}
                 ELSE b.Allowed[r][c]]]
    IN  IF ~s.ret THEN [b |-> b, ret |-> FALSE, ret2 |-> FALSE]
        ELSE [b |-> [s.b EXCEPT !.Allowed = al], ret |-> TRUE, ret2 |-> neighborUpdated]

\* Mark: ret is "the cell was changed", ret2 is "a neighbour lost val".
Mark(b, ri, ci, val) ==
    LET s == Set(b, ri, ci, val)
        neighbor(r, c) == (c = ci /\ r # ri) \/ (r = ri /\ c # ci)
        neighborUpdated ==
            \E r \in 0..(b.Size - 1), c \in 0..(b.Size - 1) :
                neighbor(r, c) /\ IsAllowed(b, r, c, val)
        al == [r \in 0..(b.Size - 1) |-> [c \in 0..(b.Size - 1) |->
                 IF neighbor(r, c) THEN b.Allowed[r][c] \ {val}
                 ELSE IF r = ri /\ c = ci
                      THEN b.Allowed[r][c] \ ((1..b.Size) \ {val})
                      ELSE b.Allowed[r][c]]]
    IN  IF ~s.ret THEN [b |-> b, ret |-> FALSE, ret2 |-> FALSE]
        ELSE [b |-> [s.b EXCEPT !.Allowed = al], ret |-> TRUE, ret2 |-> neighborUpdated]

NumSet(m) == 1..m

NewAllowed(m) == [ri \in 0..(m - 1) |-> [ci \in 0..(m - 1) |-> NumSet(m)]]

\* -------------------------------------------------------------- constructor
\* The loop of BoardFromString over the cells of inputs, row by row; k counts
\* the cells already read and w is the width Size+2.
RECURSIVE ReadInputs(_, _, _, _)
ReadInputs(st, inp, w, k) ==
    IF k >= w * w \/ st.panic THEN st
    ELSE LET ri == k \div w
             ci == k % w
             cell == inp[ri][ci]
             b == st.b
             corner == (ri = 0 \/ ri = b.Size + 1) /\ (ci = 0 \/ ci = b.Size + 1)
             colObs == [Type |-> OBS_COL, Index |-> ci - 1,
                        Direction |-> IF ri = b.Size + 1 THEN OBS_BWD ELSE OBS_FWD,
                        Count |-> cell]
             rowObs == [Type |-> OBS_ROW, Index |-> ri - 1,
                        Direction |-> IF ci = b.Size + 1 THEN OBS_BWD ELSE OBS_FWD,
                        Count |-> cell]
             next == IF ri = 0 \/ ri = b.Size + 1
                     THEN (IF corner THEN st ELSE AddObserver(b, colObs))
                     ELSE IF ci = 0 \/ ci = b.Size + 1
                          THEN AddObserver(b, rowObs)
                          ELSE [b |-> Mark(b, ri - 1, ci - 1, cell).b, panic |-> FALSE]
         IN  ReadInputs(next, inp, w, k + 1)

\* -------------------------------------------------------- propagation engine
\* KeepPerms with the test of the line's first cell only.
KeepPermsFirstCell(b, list, allowedAt) ==
    SelectSeq(list, LAMBDA pi : At(At(b.Perms, pi), 0) \in allowedAt[0])

\* One line's list filtered by TrimPermsFromAllowed; allowedAt[i] is the
\* candidate set of the line's i-th cell.
KeepPerms(b, list, allowedAt) ==
    SelectSeq(list, LAMBDA pi :
        \A i \in 0..(b.Size - 1) : At(At(b.Perms, pi), i) \in allowedAt[i])

\* TrimPermsFromAllowed that reports a change whether or not a list shrank
\* (changed = true outside the length test).
TrimPermsAlwaysChanged(b) ==
    LET rowAt(ri) == KeepPerms(b, b.RowPerms[ri].val, b.Allowed[ri])
        rows == [ri \in 0..(b.Size - 1) |->
                    IF b.RowPerms[ri].nil THEN NilList ELSE PtrTo(rowAt(ri))]
        colAt(ci) == KeepPerms(b, b.ColPerms[ci].val, [i \in 0..(b.Size - 1) |-> b.Allowed[i][ci]])
        cols == [ci \in 0..(b.Size - 1) |->
                    IF b.ColPerms[ci].nil THEN NilList ELSE PtrTo(colAt(ci))]
    IN  [b |-> [b EXCEPT !.RowPerms = rows, !.ColPerms = cols],
         ret |-> \E i \in 0..(b.Size - 1) : ~b.RowPerms[i].nil \/ ~b.ColPerms[i].nil]

TrimPermsFromAllowed(b) ==
    LET rowAt(ri) == KeepPerms(b, b.RowPerms[ri].val, b.Allowed[ri])
        rows == [ri \in 0..(b.Size - 1) |->
                    IF b.RowPerms[ri].nil THEN NilList
                    ELSE IF Len(b.RowPerms[ri].val) # Len(rowAt(ri))
                         THEN PtrTo(rowAt(ri)) ELSE b.RowPerms[ri]]
        colAt(ci) == KeepPerms(b, b.ColPerms[ci].val, [i \in 0..(b.Size - 1) |-> b.Allowed[i][ci]])
        cols == [ci \in 0..(b.Size - 1) |->
                    IF b.ColPerms[ci].nil THEN NilList
                    ELSE IF Len(b.ColPerms[ci].val) # Len(colAt(ci))
                         THEN PtrTo(colAt(ci)) ELSE b.ColPerms[ci]]
    IN  [b |-> [b EXCEPT !.RowPerms = rows, !.ColPerms = cols],
         ret |-> rows # b.RowPerms \/ cols # b.ColPerms]

\* The scan of MarkMandatory over the cells, row by row; k cells are done.
RECURSIVE MarkScan(_, _)
MarkScan(st, k) ==
    IF k >= st.b.Size * st.b.Size THEN st
    ELSE LET b == st.b
             ri == k \div b.Size
             ci == k % b.Size
             allowed == b.Allowed[ri][ci]
         IN  IF Cardinality(allowed) # 1 \/ Get(b, ri, ci) # EMPTY
             THEN MarkScan(st, k + 1)
             ELSE LET key == CHOOSE x \in allowed : TRUE
                      m == Mark(b, ri, ci, key)
                  IN  MarkScan([b |-> m.b, changed |-> st.changed \/ m.ret,
                                redo |-> st.redo \/ m.ret2], k + 1)

\* MarkMandatory with a single scan (no redo).
MarkMandatoryOnePass(b) ==
    LET st == MarkScan([b |-> b, changed |-> FALSE, redo |-> FALSE], 0)
    IN  [b |-> st.b, ret |-> st.changed]

RECURSIVE MarkMandatory(_)
MarkMandatory(b) ==
    LET st == MarkScan([b |-> b, changed |-> FALSE, redo |-> FALSE], 0)
    IN  IF st.redo THEN [b |-> MarkMandatory(st.b).b, ret |-> st.changed]
        ELSE [b |-> st.b, ret |-> st.changed]

\* Whether some permutation of a line's list has m at position pos.
Found(b, list, pos, m) == \E k \in 1..Len(list) : At(At(b.Perms, list[k]), pos) = m

\* The test of TrimAllowedFromPerms with the row's permutations read at ri and
\* the column's at ci (the two positions exchanged).
UnsupportedSwapped(b, ri, ci, m) ==
    IF ~b.RowPerms[ri].nil /\ ~Found(b, b.RowPerms[ri].val, ri, m) THEN TRUE
    ELSE ~b.ColPerms[ci].nil /\ ~Found(b, b.ColPerms[ci].val, ci, m)

\* The test of TrimAllowedFromPerms as a deletion only when no present list
\* places m (the row's failure alone does not delete).
UnsupportedByBoth(b, ri, ci, m) ==
    /\ ~b.RowPerms[ri].nil \/ ~b.ColPerms[ci].nil
    /\ b.RowPerms[ri].nil \/ ~Found(b, b.RowPerms[ri].val, ci, m)
    /\ b.ColPerms[ci].nil \/ ~Found(b, b.ColPerms[ci].val, ri, m)

\* TrimAllowedFromPerms deletes m from cell (ri, ci) when the row's list is
\* present and does not place it, or else when the column's list is present
\* and does not place it.
Unsupported(b, ri, ci, m) ==
    IF ~b.RowPerms[ri].nil /\ ~Found(b, b.RowPerms[ri].val, ci, m) THEN TRUE
    ELSE ~b.ColPerms[ci].nil /\ ~Found(b, b.ColPerms[ci].val, ri, m)

TrimAllowedFromPerms(b) ==
    LET al == [ri \in 0..(b.Size - 1) |-> [ci \in 0..(b.Size - 1) |->
                 {m \in b.Allowed[ri][ci] : ~Unsupported(b, ri, ci, m)}]]
    IN  [b |-> [b EXCEPT !.Allowed = al], ret |-> al # b.Allowed]

BoardFromString(inp) ==
    LET size == Cardinality(DOMAIN inp) - 2
        b0 == [ZeroBoard EXCEPT
                 !.Size = size,
                 !.Allowed = NewAllowed(size),
                 !.NumEmpty = size * size,
                 !.Observers = <<>>,
                 !.ObsSorted = [k \in 0..(size * 4 - 1) |-> NilObs],
                 !.RowPerms = [k \in 0..(size - 1) |-> NilList],
                 !.ColPerms = [k \in 0..(size - 1) |-> NilList],
                 !.Grid = [ri \in 0..(size - 1) |-> [ci \in 0..(size - 1) |-> 0]]]
        st == ReadInputs([b |-> b0, panic |-> FALSE], inp, size + 2, 0)
        b1 == [st.b EXCEPT !.Perms = PermuteN(size)]
        b2 == PopulateRowColPerms(b1)
    IN  IF st.panic THEN st
        ELSE [b |-> TrimAllowedFromPerms(b2).b, panic |-> FALSE]

\* --------------------------------------------------------- pattern heuristics
NumSetsEqual(a, b) == Cardinality(a) = Cardinality(b) /\ \A k \in a : k \in b

\* CheckRowNakedSet without the comparison of the set's size with n.
CheckRowNakedSetAnySize(b, indices, rowIndex) ==
    IF Len(indices) = 0 THEN FALSE
    ELSE \A k \in 2..Len(indices) :
            /\ b.Grid[rowIndex][indices[k]] = EMPTY
            /\ NumSetsEqual(b.Allowed[rowIndex][indices[k]], b.Allowed[rowIndex][indices[1]])

CheckRowNakedSet(b, indices, rowIndex) ==
    IF Len(indices) = 0 THEN FALSE
    ELSE IF Len(indices) # Cardinality(b.Allowed[rowIndex][indices[1]]) THEN FALSE
    ELSE \A k \in 2..Len(indices) :
            /\ b.Grid[rowIndex][indices[k]] = EMPTY
            /\ NumSetsEqual(b.Allowed[rowIndex][indices[k]], b.Allowed[rowIndex][indices[1]])

CheckColumnNakedSet(b, indices, colIndex) ==
    IF Len(indices) = 0 THEN FALSE
    ELSE IF Len(indices) # Cardinality(b.Allowed[indices[1]][colIndex]) THEN FALSE
    ELSE \A k \in 2..Len(indices) :
            /\ b.Grid[indices[k]][colIndex] = EMPTY
            /\ NumSetsEqual(b.Allowed[indices[k]][colIndex], b.Allowed[indices[1]][colIndex])

SliceContains(haystack, needle) == \E k \in 1..Len(haystack) : haystack[k] = needle

DisallowAll(b, ri, ci, toRemove) ==
    [b |-> [b EXCEPT !.Allowed[ri][ci] = @ \ toRemove],
     ret |-> \E k \in toRemove : k \in b.Allowed[ri][ci]]

\* toKeep is a list of numbers.
DisallowOthers(b, ri, ci, toKeep) ==
    [b |-> [b EXCEPT !.Allowed[ri][ci] = {k \in @ : SliceContains(toKeep, k)}],
     ret |-> \E k \in b.Allowed[ri][ci] : ~SliceContains(toKeep, k)]

\* RowHit without the test SliceContains(idxs, ci): the cells of the naked
\* set are not skipped.
RowHitAnyCell(b, idxs, ri) ==
    LET hits == {ci \in 0..(b.Size - 1) :
                    DisallowAll(b, ri, ci, b.Allowed[ri][idxs[1]]).ret}
    IN  IF ~CheckRowNakedSet(b, idxs, ri) \/ hits = {} THEN -1
        ELSE CHOOSE ci \in hits : \A x \in hits : ci <= x

\* TrimNakedSets returns from inside its loops at the first DisallowAll that
\* removes something; nothing is modified before that.  The loops visit
\* (line, entry of indices, cell) in this order, rows before columns.
\* RowHit / ColHit: the first cell of the line at which the naked set idxs
\* makes DisallowAll succeed, or -1.
RowHit(b, idxs, ri) ==
    LET hits == {ci \in 0..(b.Size - 1) :
                    /\ ~SliceContains(idxs, ci)
                    /\ DisallowAll(b, ri, ci, b.Allowed[ri][idxs[1]]).ret}
    IN  IF ~CheckRowNakedSet(b, idxs, ri) \/ hits = {} THEN -1
        ELSE CHOOSE ci \in hits : \A x \in hits : ci <= x

ColHit(b, idxs, ci) ==
    LET hits == {ri \in 0..(b.Size - 1) :
                    /\ ~SliceContains(idxs, ri)
                    /\ DisallowAll(b, ri, ci, b.Allowed[idxs[1]][ci]).ret}
    IN  IF ~CheckColumnNakedSet(b, idxs, ci) \/ hits = {} THEN -1
        ELSE CHOOSE ri \in hits : \A x \in hits : ri <= x

\* The row loop of TrimNakedSets without the return inside it: the first naked
\* set found with something to remove is removed from every other cell of
\* its row.
NakedRowsWholeLine(b, indices) ==
    LET entry(step) == At(indices, step % Len(indices))
        line(step) == step \div Len(indices)
        hits == {step \in 0..(b.Size * Len(indices) - 1) :
                    RowHit(b, entry(step), line(step)) >= 0}
        first == CHOOSE step \in hits : \A x \in hits : step <= x
        set == b.Allowed[line(first)][entry(first)[1]]
    IN  IF hits = {} THEN [b |-> b, ret |-> FALSE]
        ELSE [b |-> [b EXCEPT !.Allowed[line(first)] =
                        [c \in 0..(b.Size - 1) |->
                            IF SliceContains(entry(first), c) THEN @[c] ELSE @[c] \ set]],
              ret |-> TRUE]

\* The loops over (line, entry of indices), flattened: step = line *
\* Len(indices) + entry.  The loops run up to the first step at which some
\* DisallowAll removes something, and return there.
NakedRows(b, indices) ==
    LET entry(step) == At(indices, step % Len(indices))
        line(step) == step \div Len(indices)
        hits == {step \in 0..(b.Size * Len(indices) - 1) :
                    RowHit(b, entry(step), line(step)) >= 0}
        first == CHOOSE step \in hits : \A x \in hits : step <= x
        ci == RowHit(b, entry(first), line(first))
    IN  IF hits = {} THEN [b |-> b, ret |-> FALSE]
        ELSE [b |-> DisallowAll(b, line(first), ci,
                                b.Allowed[line(first)][entry(first)[1]]).b,
              ret |-> TRUE]

NakedCols(b, indices) ==
    LET entry(step) == At(indices, step % Len(indices))
        line(step) == step \div Len(indices)
        hits == {step \in 0..(b.Size * Len(indices) - 1) :
                    ColHit(b, entry(step), line(step)) >= 0}
        first == CHOOSE step \in hits : \A x \in hits : step <= x
        ri == ColHit(b, entry(first), line(first))
    IN  IF hits = {} THEN [b |-> b, ret |-> FALSE]
        ELSE [b |-> DisallowAll(b, ri, line(first),
                                b.Allowed[entry(first)[1]][line(first)]).b,
              ret |-> TRUE]

TrimNakedSets(b, m) ==
    LET indices == Permute(0, b.Size - 1, m)
        rows == NakedRows(b, indices)
    IN  IF rows.ret THEN rows ELSE NakedCols(b, indices)

\* numberCells of CheckRowFoundGroup / CheckColFoundGroup for one number.
RowCells(b, num, rowIndex) == {coli \in 0..(b.Size - 1) : IsAllowed(b, rowIndex, coli, num)}

ColCells(b, num, colIndex) == {rowi \in 0..(b.Size - 1) : IsAllowed(b, rowi, colIndex, num)}

\* CheckRowFoundGroup without the comparison of the number of positions with
\* the number of values.
CheckRowFoundGroupAnySize(b, numbers, rowIndex) ==
    \A i \in 2..Len(numbers) :
        NumSetsEqual(RowCells(b, numbers[i], rowIndex), RowCells(b, numbers[1], rowIndex))

CheckRowFoundGroup(b, numbers, rowIndex) ==
    IF Cardinality(RowCells(b, numbers[1], rowIndex)) # Len(numbers) THEN FALSE
    ELSE \A i \in 2..Len(numbers) :
            NumSetsEqual(RowCells(b, numbers[i], rowIndex), RowCells(b, numbers[1], rowIndex))

CheckColFoundGroup(b, numbers, colIndex) ==
    IF Cardinality(ColCells(b, numbers[1], colIndex)) # Len(numbers) THEN FALSE
    ELSE \A i \in 2..Len(numbers) :
            NumSetsEqual(ColCells(b, numbers[i], colIndex), ColCells(b, numbers[1], colIndex))

\* The inner loop of TrimFoundGroups over the cells of one line: DisallowOthers
\* at every cell of the line that allows nums[0], from cell i on.
RECURSIVE FoundRowCells(_, _, _, _)
FoundRowCells(st, nums, ri, i) ==
    IF i >= st.b.Size THEN st
    ELSE IF IsAllowed(st.b, ri, i, nums[1])
         THEN LET d == DisallowOthers(st.b, ri, i, nums)
              IN  FoundRowCells([b |-> d.b, ret |-> st.ret \/ d.ret], nums, ri, i + 1)
         ELSE FoundRowCells(st, nums, ri, i + 1)

RECURSIVE FoundColCells(_, _, _, _)
FoundColCells(st, nums, ci, i) ==
    IF i >= st.b.Size THEN st
    ELSE IF IsAllowed(st.b, i, ci, nums[1])
         THEN LET d == DisallowOthers(st.b, i, ci, nums)
              IN  FoundColCells([b |-> d.b, ret |-> st.ret \/ d.ret], nums, ci, i + 1)
         ELSE FoundColCells(st, nums, ci, i + 1)

\* The loops over the rows, then over the columns, for one entry of numbers.
RECURSIVE FoundRows(_, _, _)
FoundRows(st, nums, ri) ==
    IF ri >= st.b.Size THEN st
    ELSE IF ~CheckRowFoundGroup(st.b, nums, ri) THEN FoundRows(st, nums, ri + 1)
    ELSE FoundRows(FoundRowCells(st, nums, ri, 0), nums, ri + 1)

RECURSIVE FoundCols(_, _, _)
FoundCols(st, nums, ci) ==
    IF ci >= st.b.Size THEN st
    ELSE IF ~CheckColFoundGroup(st.b, nums, ci) THEN FoundCols(st, nums, ci + 1)
    ELSE FoundCols(FoundColCells(st, nums, ci, 0), nums, ci + 1)

\* The outer loop over numbers, from entry k on; ch is the local
\* variable changed.  An entry for which no DisallowOthers removed anything leaves the
\* board as it was.
RECURSIVE FoundNumbers(_, _, _, _)
FoundNumbers(b, ch, numbers, k) ==
    IF k > Len(numbers) THEN [b |-> b, ret |-> ch]
    ELSE LET st == FoundCols(FoundRows([b |-> b, ret |-> FALSE], numbers[k], 0),
                             numbers[k], 0)
         IN  IF st.ret THEN FoundNumbers(st.b, TRUE, numbers, k + 1)
             ELSE FoundNumbers(b, ch, numbers, k + 1)

TrimFoundGroups(b, m) == FoundNumbers(b, FALSE, Permute(1, b.Size, m), 1)

\* ------------------------------------------------------------- the puzzles
\* The visible count of a line (glossary): the positions whose value exceeds
\* every value before them.
Visible(line) == Cardinality({i \in 1..Len(line) : \A j \in 1..(i - 1) : line[j] < line[i]})

Reverse(line) == [i \in 1..Len(line) |-> line[Len(line) + 1 - i]]

RowOf(S, m, r) == [c \in 1..m |-> S[r][c - 1]]

ColOf(S, m, c) == [r \in 1..m |-> S[r - 1][c]]

\* The Latin square whose row r is the cyclic order 1..m rotated by offs[r].
CyclicSquare(m, offs) ==
    [r \in 0..(m - 1) |-> [c \in 0..(m - 1) |-> ((c + At(offs, r)) % m) + 1]]

\* The Latin squares puzzles of size m are drawn from.
Squares(m) ==
    LET offs == Permute(0, m - 1, m)
    IN  {CyclicSquare(m, offs[k]) : k \in 1..Min(MaxSquares, Len(offs))}

Sides == {"T", "B", "L", "R"}

\* The input grid of the puzzle of S that gives the clues of the sides in
\* `sides` and pre-fills the first `pre` cells of the main diagonal.
Puzzle(S, m, sides, pre) ==
    [ri \in 0..(m + 1) |-> [ci \in 0..(m + 1) |->
        IF (ri = 0 \/ ri = m + 1) /\ (ci = 0 \/ ci = m + 1) THEN 0
        ELSE IF ri = 0 THEN (IF "T" \in sides THEN Visible(ColOf(S, m, ci - 1)) ELSE 0)
        ELSE IF ri = m + 1
             THEN (IF "B" \in sides THEN Visible(Reverse(ColOf(S, m, ci - 1))) ELSE 0)
        ELSE IF ci = 0 THEN (IF "L" \in sides THEN Visible(RowOf(S, m, ri - 1)) ELSE 0)
        ELSE IF ci = m + 1
             THEN (IF "R" \in sides THEN Visible(Reverse(RowOf(S, m, ri - 1))) ELSE 0)
        ELSE IF ri = ci /\ ri <= pre THEN S[ri - 1][ci - 1] ELSE 0]]

\* Puzzles a Latin square solves.
GoodPuzzles ==
    {[inp |-> Puzzle(q.S, q.m, q.sides, q.pre), sol |-> q.S] :
        q \in UNION {[m : {m}, S : Squares(m), sides : SUBSET Sides,
                      pre : 0..Min(MaxPrefill, m)] : m \in 1..MaxSize}}

\* Puzzles with one entry (a clue or a cell) overwritten by any value, also
\* one that is out of range: most of them have no solution.
BadPuzzles ==
    {[inp |-> [Puzzle(q.S, q.m, q.sides, 0) EXCEPT ![q.ri][q.ci] = q.v], sol |-> q.S] :
        q \in UNION {{x \in [m : {m}, S : Squares(m), sides : {{}, Sides},
                             ri : 0..(m + 1), ci : 0..(m + 1), v : 0..(m + 1)] :
                        ~((x.ri = 0 \/ x.ri = m + 1) /\ (x.ci = 0 \/ x.ci = m + 1))} :
                     m \in 1..Min(MaxBadSize, MaxSize)}}

\* ------------------------------------------------------------- the caller
NoCall == [op |-> "", r |-> 0, c |-> 0, v |-> 0, ret |-> FALSE, ret2 |-> FALSE, err |-> ""]

Call(op, v, ret) == [NoCall EXCEPT !.op = op, !.v = v, !.ret = ret]

InitWith(puzzles) ==
    /\ \E p \in puzzles : inputs = p.inp /\ sol = p.sol
    /\ Grid = ZeroBoard.Grid
    /\ Allowed = ZeroBoard.Allowed
    /\ NumEmpty = ZeroBoard.NumEmpty
    /\ Size = ZeroBoard.Size
    /\ Observers = ZeroBoard.Observers
    /\ ObsSorted = ZeroBoard.ObsSorted
    /\ Perms = ZeroBoard.Perms
    /\ RowPerms = ZeroBoard.RowPerms
    /\ ColPerms = ZeroBoard.ColPerms
    /\ panicked = FALSE
    /\ pc = "start"
    /\ changed = FALSE
    /\ n = 0
    /\ last = NoCall
    /\ calls = 0

Init == InitWith(GoodPuzzles \cup BadPuzzles)

\* main: b, err := BoardFromString(...), then b.AutoSolve() with changed := true.
Construct ==
    /\ pc = "start"
    /\ LET st == BoardFromString(inputs)
       IN  /\ StoreBoard(st.b)
           /\ panicked' = st.panic
           /\ pc' = IF st.panic THEN "panic" ELSE "loop"
    /\ changed' = TRUE
    /\ last' = Call("BoardFromString", 0, FALSE)
    /\ UNCHANGED <<inputs, sol, n, calls>>

\* for changed && b.Solved() != nil { changed = false ... }  return b.Solved()
LoopTest ==
    /\ pc = "loop"
    /\ IF changed /\ Solved(Board).err # "nil"
       THEN /\ pc' = "MM"
            /\ changed' = FALSE
            /\ last' = [Call("Solved", 0, FALSE) EXCEPT !.err = Solved(Board).err]
       ELSE /\ pc' = "done"
            /\ changed' = changed
            /\ last' = [Call("AutoSolve", 0, Solved(Board).err = "nil")
                            EXCEPT !.err = Solved(Board).err]
    /\ UNCHANGED <<inputs, sol, boardVars, panicked, n, calls>>

StepMM ==
    /\ pc = "MM"
    /\ LET r == MarkMandatory(Board)
       IN  /\ StoreBoard(r.b)
           /\ changed' = (changed \/ r.ret)
           /\ last' = Call("MarkMandatory", 0, r.ret)
    /\ pc' = "TAFP"
    /\ UNCHANGED <<inputs, sol, panicked, n, calls>>

StepTAFP ==
    /\ pc = "TAFP"
    /\ LET r == TrimAllowedFromPerms(Board)
       IN  /\ StoreBoard(r.b)
           /\ changed' = (changed \/ r.ret)
           /\ last' = Call("TrimAllowedFromPerms", 0, r.ret)
    /\ pc' = "TPFA"
    /\ UNCHANGED <<inputs, sol, panicked, n, calls>>

\* After the third rule: the naked-set loop starts at n = 2 when nothing has
\* changed; it (and the found-group loop) has no iteration when 2 >= Size-1.
StepTPFA ==
    /\ pc = "TPFA"
    /\ LET r == TrimPermsFromAllowed(Board)
       IN  /\ StoreBoard(r.b)
           /\ changed' = (changed \/ r.ret)
           /\ last' = Call("TrimPermsFromAllowed", 0, r.ret)
           /\ pc' = IF ~(changed \/ r.ret) /\ 2 < Size - 1 THEN "TNS" ELSE "loop"
           /\ n' = IF ~(changed \/ r.ret) THEN 2 ELSE n
    /\ UNCHANGED <<inputs, sol, panicked, calls>>

\* The naked-set loop with the condition n < b.Size-2: it stops one size
\* short.
StepTNSStopsEarly ==
    /\ pc = "TNS"
    /\ LET r == TrimNakedSets(Board, n)
       IN  /\ StoreBoard(r.b)
           /\ changed' = r.ret
           /\ last' = Call("TrimNakedSets", n, r.ret)
           /\ pc' = IF r.ret THEN "loop"
                    ELSE IF n + 1 < Size - 2 THEN "TNS" ELSE "TFG"
           /\ n' = IF ~r.ret /\ ~(n + 1 < Size - 2) THEN 2 ELSE n + 1
    /\ UNCHANGED <<inputs, sol, panicked, calls>>

\* The naked-set loop without "&& !changed" in its condition: it goes on to the
\* next size after a size has reported a change.
StepTNSKeepsGoing ==
    /\ pc = "TNS"
    /\ LET r == TrimNakedSets(Board, n)
       IN  /\ StoreBoard(r.b)
           /\ changed' = (changed \/ r.ret)
           /\ last' = Call("TrimNakedSets", n, r.ret)
           /\ pc' = IF n + 1 < Size - 1 THEN "TNS"
                    ELSE IF changed \/ r.ret THEN "loop" ELSE "TFG"
           /\ n' = IF n + 1 < Size - 1 THEN n + 1 ELSE 2
    /\ UNCHANGED <<inputs, sol, panicked, calls>>

\* for n := 2; n < b.Size-1 && !changed; n++ { if b.TrimNakedSets(n) ... }
StepTNS ==
    /\ pc = "TNS"
    /\ LET r == TrimNakedSets(Board, n)
       IN  /\ StoreBoard(r.b)
           /\ changed' = r.ret
           /\ last' = Call("TrimNakedSets", n, r.ret)
           /\ pc' = IF r.ret THEN "loop"
                    ELSE IF n + 1 < Size - 1 THEN "TNS" ELSE "TFG"
           /\ n' = IF ~r.ret /\ ~(n + 1 < Size - 1) THEN 2 ELSE n + 1
    /\ UNCHANGED <<inputs, sol, panicked, calls>>

\* for n := 2; n < b.Size-1 && !changed; n++ { if b.TrimFoundGroups(n) ... }
StepTFG ==
    /\ pc = "TFG"
    /\ LET r == TrimFoundGroups(Board, n)
       IN  /\ StoreBoard(r.b)
           /\ changed' = r.ret
           /\ last' = Call("TrimFoundGroups", n, r.ret)
           /\ pc' = IF ~r.ret /\ n + 1 < Size - 1 THEN "TFG" ELSE "loop"
    /\ n' = n + 1
    /\ UNCHANGED <<inputs, sol, panicked, calls>>

Next == Construct \/ LoopTest \/ StepMM \/ StepTAFP \/ StepTPFA \/ StepTNS \/ StepTFG

Spec == Init /\ [][Next]_vars

\* The positions of main and AutoSolve.
PCs == {"start", "panic", "loop", "MM", "TAFP", "TPFA", "TNS", "TFG", "done"}

\* main and AutoSolve are one synchronous run: as long as the run has neither
\* returned nor panicked its next statement is executed.  Every step of Next
\* moves <<pc, n>>, and a step is possible exactly when pc is not "done" or
\* "panic", so weak fairness on the move of <<pc, n>> is weak fairness of Next.
Advance == pc \notin {"done", "panic"} /\ pc' \in PCs /\ n' \in 0..(MaxSize + 1)

FairSpec == Spec /\ WF_<<pc, n>>(Advance)

Cells == {<<r, c>> \in (0..(Size - 1)) \X (0..(Size - 1)) : TRUE}

Rules == {"MarkMandatory", "TrimAllowedFromPerms", "TrimPermsFromAllowed",
          "TrimNakedSets", "TrimFoundGroups"}

\* ------------------------------------------- a caller of the Board's methods
\* The board's methods are public to the package: testRowFoundGroup and
\* testColFoundGroup call them one by one on a board.  This caller constructs
\* a board and then calls Set, Unset, Mark and the five rules in any order,
\* on the cells of ApiCells with the values 1..MaxVal.

\* Board size of the puzzles of this caller.
ApiSize == 3
\* Largest value this caller writes into a cell.
MaxVal == 2
\* Number of calls this caller makes after the construction.
MaxCalls == 3

ApiCells == {<<0, 0>>, <<0, 1>>}

\* The puzzles of this caller: no clue at all, or the top and left clues of
\* the first cyclic square.
ApiPuzzles ==
    {[inp |-> Puzzle(S, ApiSize, sides, 0), sol |-> S] :
        S \in {CyclicSquare(ApiSize, Permute(0, ApiSize - 1, ApiSize)[1])},
        sides \in {{}, {"T", "L"}}}

ApiCall(op, r, c, v, ret, ret2) ==
    [NoCall EXCEPT !.op = op, !.r = r, !.c = c, !.v = v, !.ret = ret, !.ret2 = ret2]

ApiInit == InitWith(ApiPuzzles)

ApiConstruct ==
    /\ pc = "start"
    /\ LET st == BoardFromString(inputs)
       IN  /\ StoreBoard(st.b)
           /\ panicked' = st.panic
           /\ pc' = IF st.panic THEN "panic" ELSE "api"
    /\ last' = Call("BoardFromString", 0, FALSE)
    /\ UNCHANGED <<inputs, sol, changed, n, calls>>

ApiSet ==
    /\ pc = "api" /\ calls < MaxCalls
    /\ \E x \in ApiCells, v \in 1..MaxVal :
          LET r == Set(Board, x[1], x[2], v)
          IN  /\ StoreBoard(r.b)
              /\ last' = ApiCall("Set", x[1], x[2], v, r.ret, FALSE)
    /\ calls' = calls + 1
    /\ UNCHANGED <<inputs, sol, panicked, pc, changed, n>>

ApiUnset ==
    /\ pc = "api" /\ calls < MaxCalls
    /\ \E x \in ApiCells :
          LET r == Unset(Board, x[1], x[2])
          IN  /\ StoreBoard(r.b)
              /\ last' = ApiCall("Unset", x[1], x[2], EMPTY, r.ret, FALSE)
    /\ calls' = calls + 1
    /\ UNCHANGED <<inputs, sol, panicked, pc, changed, n>>

ApiMark ==
    /\ pc = "api" /\ calls < MaxCalls
    /\ \E x \in ApiCells, v \in 1..MaxVal :
          LET r == Mark(Board, x[1], x[2], v)
          IN  /\ StoreBoard(r.b)
              /\ last' = ApiCall("Mark", x[1], x[2], v, r.ret, r.ret2)
    /\ calls' = calls + 1
    /\ UNCHANGED <<inputs, sol, panicked, pc, changed, n>>

\* One of the five rules; the pattern heuristics with any n from 2 to Size-1.
ApiRule ==
    /\ pc = "api" /\ calls < MaxCalls
    /\ \E op \in Rules, m \in 2..(Size - 1) :
          LET r == CASE op = "MarkMandatory" -> MarkMandatory(Board)
                     [] op = "TrimAllowedFromPerms" -> TrimAllowedFromPerms(Board)
                     [] op = "TrimPermsFromAllowed" -> TrimPermsFromAllowed(Board)
                     [] op = "TrimNakedSets" -> TrimNakedSets(Board, m)
                     [] op = "TrimFoundGroups" -> TrimFoundGroups(Board, m)
          IN  /\ StoreBoard(r.b)
              /\ last' = ApiCall(op, 0, 0, IF op \in {"TrimNakedSets", "TrimFoundGroups"}
                                          THEN m ELSE 0, r.ret, FALSE)
    /\ calls' = calls + 1
    /\ UNCHANGED <<inputs, sol, panicked, pc, changed, n>>

ApiNext == ApiConstruct \/ ApiSet \/ ApiUnset \/ ApiMark \/ ApiRule

SpecApi == ApiInit /\ [][ApiNext]_vars

\* ------------------------------------------------ the heuristics' test bench
\* testRowFoundGroup builds the board of seven blank lines (no clue, no
\* pre-filled cell), narrows the cells of row 0 from left to right with
\* DisallowOthers and calls a heuristic.  This caller does the same with the
\* lists of KeepMenu, and then calls the heuristics and MarkMandatory in any
\* order, MaxTestCalls times.

\* Board size of testRowFoundGroup: its input has TestSize + 2 lines.
TestSize == 5

\* The lists DisallowOthers is called with; the last one keeps every value.
KeepMenu == {<<1, 2>>, <<3, 4, 5>>, <<1, 2, 3, 4, 5>>}
\* Number of calls this caller makes after the narrowing of row 0.
MaxTestCalls == 2

TestInit ==
    InitWith({[inp |-> [ri \in 0..(TestSize + 1) |-> [ci \in 0..(TestSize + 1) |-> 0]],
               sol |-> CyclicSquare(TestSize, Permute(0, TestSize - 1, TestSize)[1])]})

TestConstruct ==
    /\ pc = "start"
    /\ LET st == BoardFromString(inputs)
       IN  /\ StoreBoard(st.b)
           /\ panicked' = st.panic
           /\ pc' = IF st.panic THEN "panic" ELSE "setup"
    /\ n' = 0
    /\ last' = Call("BoardFromString", 0, FALSE)
    /\ UNCHANGED <<inputs, sol, changed, calls>>

\* b.DisallowOthers(0, n, keep) for the next cell n of row 0.
TestDisallowOthers ==
    /\ pc = "setup"
    /\ \E keep \in KeepMenu :
          LET r == DisallowOthers(Board, 0, n, keep)
          IN  /\ StoreBoard(r.b)
              /\ last' = ApiCall("DisallowOthers", 0, n, 0, r.ret, FALSE)
    /\ n' = n + 1
    /\ pc' = IF n + 1 < Size THEN "setup" ELSE "test"
    /\ UNCHANGED <<inputs, sol, panicked, changed, calls>>

TestNakedSets ==
    /\ pc = "test" /\ calls < MaxTestCalls
    /\ \E m \in 2..(Size - 2) :
          LET r == TrimNakedSets(Board, m)
          IN  /\ StoreBoard(r.b)
              /\ last' = ApiCall("TrimNakedSets", 0, 0, m, r.ret, FALSE)
    /\ calls' = calls + 1
    /\ UNCHANGED <<inputs, sol, panicked, pc, changed, n>>

TestFoundGroups ==
    /\ pc = "test" /\ calls < MaxTestCalls
    /\ \E m \in 2..(Size - 2) :
          LET r == TrimFoundGroups(Board, m)
          IN  /\ StoreBoard(r.b)
              /\ last' = ApiCall("TrimFoundGroups", 0, 0, m, r.ret, FALSE)
    /\ calls' = calls + 1
    /\ UNCHANGED <<inputs, sol, panicked, pc, changed, n>>

TestMarkMandatory ==
    /\ pc = "test" /\ calls < MaxTestCalls
    /\ LET r == MarkMandatory(Board)
       IN  /\ StoreBoard(r.b)
           /\ last' = ApiCall("MarkMandatory", 0, 0, 0, r.ret, FALSE)
    /\ calls' = calls + 1
    /\ UNCHANGED <<inputs, sol, panicked, pc, changed, n>>

TestNext ==
    TestConstruct \/ TestDisallowOthers \/ TestNakedSets \/ TestFoundGroups
        \/ TestMarkMandatory

SpecTest == TestInit /\ [][TestNext]_vars

\* ------------------------------------------------- what a puzzle's solutions are
\* S (a Latin square of size m) solves the input grid: every clue given (non
\* zero) is the visible count of S from that side, every pre-filled cell is
\* the value of S.
Solves(S, inp) ==
    LET m == Cardinality(DOMAIN inp) - 2
        full == Puzzle(S, m, Sides, 0)
    IN  /\ m = Cardinality(DOMAIN S)
        /\ \A ri \in 0..(m + 1), ci \in 0..(m + 1) :
              IF ri \in 1..m /\ ci \in 1..m
              THEN inp[ri][ci] \in {0, S[ri - 1][ci - 1]}
              ELSE inp[ri][ci] \in {0, full[ri][ci]}

\* All orders of 1..m.
Lines(m) == Permutations(1..m)

\* The line p agrees with the clues and pre-filled cells of row r of inp.
RowFits(inp, m, r, p) ==
    /\ inp[r + 1][0] \in {0, Visible(p)}
    /\ inp[r + 1][m + 1] \in {0, Visible(Reverse(p))}
    /\ \A c \in 1..m : inp[r + 1][c] \in {0, p[c]}

\* The line p can follow the rows chosen so far (a sequence of lines) as the
\* next row of a Latin square that agrees with the column clues.
ColumnsFit(inp, m, rows, p) ==
    LET k == Len(rows) + 1
        col(c) == [i \in 1..k |-> IF i = k THEN p[c] ELSE rows[i][c]]
    IN  /\ \A c \in 1..m : \A i \in 1..Len(rows) : rows[i][c] # p[c]
        /\ \A c \in 1..m :
              inp[0][c] # 0 =>
                  /\ Visible(col(c)) <= inp[0][c]
                  /\ (\E i \in 1..k : col(c)[i] = m) => Visible(col(c)) = inp[0][c]
        /\ k = m =>
              \A c \in 1..m :
                  inp[m + 1][c] # 0 => Visible(Reverse(col(c))) = inp[m + 1][c]

\* Some Latin square that extends rows solves inp and, unless diff, differs from S.
RECURSIVE Completes(_, _, _, _, _, _)
Completes(inp, m, cands, S, rows, diff) ==
    IF Len(rows) = m THEN diff
    ELSE \E p \in cands[Len(rows) + 1] :
            /\ ColumnsFit(inp, m, rows, p)
            /\ Completes(inp, m, cands, S, Append(rows, p),
                         diff \/ p # RowOf(S, m, Len(rows)))

\* The lines that fit rows r..m-1 of inp, as a sequence (entry 1 is row r's).
RECURSIVE RowCandidatesFrom(_, _, _, _)
RowCandidatesFrom(inp, m, all, r) ==
    IF r >= m THEN <<>>
    ELSE <<{p \in all : RowFits(inp, m, r, p)}>> \o RowCandidatesFrom(inp, m, all, r + 1)

RowCandidates(inp, m) == RowCandidatesFrom(inp, m, Lines(m), 0)

HasSolution(inp) ==
    LET m == Cardinality(DOMAIN inp) - 2
    IN  Completes(inp, m, RowCandidates(inp, m), <<>>, <<>>, TRUE)

\* S is the one and only solution of inp.
OnlySolution(S, inp) ==
    LET m == Cardinality(DOMAIN inp) - 2
    IN  Solves(S, inp) /\ ~Completes(inp, m, RowCandidates(inp, m), S, <<>>, FALSE)

\* ---------------------------------------------------------------------- C1
\* C1: soundness of propagation.  Whenever the Latin square the puzzle was
\* drawn from solves the puzzle (its clues and pre-filled cells are those of
\* the square), then after BoardFromString and after every rule AutoSolve
\* applies, the square's value of every cell is still in the cell's candidate
\* set.  (This covers the puzzles with a unique solution.)
C1_Soundness ==
    (pc # "start" /\ Solves(sol, inputs)) =>
        \A x \in Cells : sol[x[1]][x[2]] \in Allowed[x[1]][x[2]]

\* A rule has just removed something on a puzzle with exactly one solution,
\* and the puzzle is not solved yet.
C1_Witness ==
    /\ last.op \in Rules /\ last.ret
    /\ OnlySolution(sol, inputs)
    /\ \E x \in Cells : Cardinality(Allowed[x[1]][x[2]]) > 1

\* ---------------------------------------------------------------------- C2
\* The entries of a line's list (the empty set for an absent list).
Entries(list) == {list.val[k] : k \in 1..Len(list.val)}

\* C2: monotonicity.  Across any sequence of calls of Mark, MarkMandatory,
\* TrimAllowedFromPerms, TrimPermsFromAllowed, TrimNakedSets(n) and
\* TrimFoundGroups(n), no call adds a member to the candidate set of a cell
\* or an entry to the list of a row or column: each list after the call is a
\* subset of the list before it and no longer, and an absent list stays absent.
C2_Monotone ==
    [][(pc = "api" /\ last'.op \in {"Mark"} \cup Rules) =>
          /\ \A x \in Cells : Allowed'[x[1]][x[2]] \subseteq Allowed[x[1]][x[2]]
          /\ \A i \in 0..(Size - 1) :
                /\ RowPerms[i].nil => RowPerms'[i].nil
                /\ ColPerms[i].nil => ColPerms'[i].nil
                /\ Entries(RowPerms'[i]) \subseteq Entries(RowPerms[i])
                /\ Entries(ColPerms'[i]) \subseteq Entries(ColPerms[i])
                /\ Len(RowPerms'[i].val) <= Len(RowPerms[i].val)
                /\ Len(ColPerms'[i].val) <= Len(ColPerms[i].val)]_vars

\* After a Mark that struck a value in a neighbour, TrimPermsFromAllowed has
\* just removed entries from a list.
C2_Witness ==
    /\ pc = "api" /\ last.op = "TrimPermsFromAllowed" /\ last.ret
    /\ \E x \in ApiCells : Grid[x[1]][x[2]] # EMPTY /\ Allowed[x[1]][x[2]] = {Grid[x[1]][x[2]]}

\* ---------------------------------------------------------------------- C3
\* The three measures: empty cells (NumEmpty), candidates, list entries.
TotalCandidates == Cardinality({<<x, v>> \in Cells \X (1..(Size + 1)) : v \in Allowed[x[1]][x[2]]})

TotalPerms ==
    Cardinality({<<i, k>> \in (0..(Size - 1)) \X (1..Len(Perms)) : k <= Len(RowPerms[i].val)})
    + Cardinality({<<i, k>> \in (0..(Size - 1)) \X (1..Len(Perms)) : k <= Len(ColPerms[i].val)})

\* C3: termination.  On every puzzle (solvable, with several solutions, or
\* contradictory) AutoSolve eventually returns; no rule call ever increases
\* the number of empty cells, the number of candidates or the number of list
\* entries, every rule call that reports a change strictly decreases one of
\* them, and the driver's `changed` only becomes true by such a call.
C3_Termination ==
    /\ <>(pc = "done")
    /\ [][pc # "start" =>
            /\ NumEmpty' <= NumEmpty
            /\ TotalCandidates' <= TotalCandidates
            /\ TotalPerms' <= TotalPerms
            /\ (last'.op \in Rules /\ last'.ret) =>
                  \/ NumEmpty' < NumEmpty
                  \/ TotalCandidates' < TotalCandidates
                  \/ TotalPerms' < TotalPerms
            /\ (~changed /\ changed') => (last'.op \in Rules /\ last'.ret)]_vars

\* AutoSolve has returned Stalled on a puzzle without any solution, after at
\* least one iteration that made progress and a last one that made none.
C3_Witness ==
    /\ pc = "done" /\ ~changed /\ last.err # "nil"
    /\ NumEmpty < Size * Size
    /\ ~HasSolution(inputs)

\* ---------------------------------------------------------------------- C4
\* C4 as claimed: on a puzzle with exactly one solution AutoSolve ends Solved,
\* with the grid equal to the solution and every candidate set its singleton.
C4_Original ==
    (pc = "done" /\ OnlySolution(sol, inputs)) =>
        /\ last.err = "nil"
        /\ Grid = sol
        /\ \A x \in Cells : Allowed[x[1]][x[2]] = {sol[x[1]][x[2]]}

\* C4 as amended: on a puzzle with exactly one solution S AutoSolve ends
\* either Solved, with the grid equal to S and every candidate set {S[r][c]},
\* or Stalled on empty cells, with every filled cell equal to S and S[r][c]
\* still a candidate of every cell.
C4_Amended ==
    pc = "done" =>
        \/ IF last.err = "nil"
           THEN /\ Grid = sol
                /\ \A x \in Cells : Allowed[x[1]][x[2]] = {sol[x[1]][x[2]]}
           ELSE /\ last.err = "empty"
                /\ \A x \in Cells :
                      /\ Grid[x[1]][x[2]] \in {EMPTY, sol[x[1]][x[2]]}
                      /\ sol[x[1]][x[2]] \in Allowed[x[1]][x[2]]
        \/ ~OnlySolution(sol, inputs)

\* AutoSolve has solved a puzzle of the largest size that has one solution
\* and no pre-filled cell.
C4_Witness ==
    /\ pc = "done" /\ last.err = "nil" /\ Size = MaxSize
    /\ \A x \in Cells : inputs[x[1] + 1][x[2] + 1] = 0
    /\ OnlySolution(sol, inputs)

\* ---------------------------------------------------------------------- C5
\* C5 as claimed: on any input, every filled cell's candidate set is exactly
\* the singleton of its value.
C5_Original ==
    pc # "start" =>
        \A x \in Cells :
            Grid[x[1]][x[2]] # EMPTY => Allowed[x[1]][x[2]] = {Grid[x[1]][x[2]]}

\* C5 as amended: on any input the candidate set of a filled cell holds no
\* value other than the cell's (it may be empty); it is exactly the singleton
\* of the cell's value when the input is well formed (its clues and pre-filled
\* cells are those of a Latin square).
C5_Amended ==
    pc # "start" =>
        /\ \A x \in Cells :
              Grid[x[1]][x[2]] # EMPTY => Allowed[x[1]][x[2]] \subseteq {Grid[x[1]][x[2]]}
        /\ (\E x \in Cells :
              Grid[x[1]][x[2]] # EMPTY /\ Allowed[x[1]][x[2]] # {Grid[x[1]][x[2]]})
                 => ~HasSolution(inputs)

\* A well-formed puzzle with pre-filled cells, completely filled by AutoSolve.
C5_Witness ==
    /\ pc = "done" /\ NumEmpty = 0 /\ Size >= 3
    /\ Solves(sol, inputs)
    /\ inputs[1][1] # 0

\* ---------------------------------------------------------------------- C6
\* C6: the counter of empty cells.  After the construction and after any
\* sequence of calls NumEmpty is the number of cells whose grid value is 0.
\* Set(r,c,v) (Unset is Set with v = 0) returns false and changes nothing when
\* the cell holds v; otherwise it returns true, writes v and adjusts NumEmpty
\* by -1 (empty to filled), +1 (filled to empty) or 0 (filled to another
\* value), and changes nothing else.
C6_Counter ==
    /\ [](pc # "start" =>
            NumEmpty = Cardinality({x \in Cells : Grid[x[1]][x[2]] = EMPTY}))
    /\ [][(pc = "api" /\ last'.op \in {"Set", "Unset"}) =>
            LET r == last'.r
                c == last'.c
                v == last'.v
                old == Grid[r][c]
            IN  IF old = v
                THEN ~last'.ret /\ UNCHANGED boardVars
                ELSE /\ last'.ret
                     /\ Grid' = [Grid EXCEPT ![r][c] = v]
                     /\ NumEmpty' = NumEmpty + (IF old # EMPTY /\ v = EMPTY THEN 1
                                                ELSE IF old = EMPTY /\ v # EMPTY THEN -1
                                                ELSE 0)
                     /\ UNCHANGED <<Allowed, Size, Observers, ObsSorted, Perms,
                                    RowPerms, ColPerms>>]_vars

\* A cell was filled, and with the last call emptied again: the counter is
\* back at the number of cells.
C6_Witness ==
    /\ pc = "api" /\ last.op = "Unset" /\ last.ret
    /\ calls >= 2 /\ NumEmpty = Size * Size

\* ---------------------------------------------------------------------- C7
\* The pairs of positions of row r whose cells are empty and have the same
\* candidate set of two values.
NakedPairs(r) ==
    {pq \in (0..(Size - 1)) \X (0..(Size - 1)) :
        /\ pq[1] # pq[2]
        /\ Grid[r][pq[1]] = EMPTY /\ Grid[r][pq[2]] = EMPTY
        /\ Cardinality(Allowed[r][pq[1]]) = 2
        /\ Allowed[r][pq[2]] = Allowed[r][pq[1]]}

\* The other cells of row r that hold a value of the pair at pq.
Holders(r, pq) ==
    {c \in (0..(Size - 1)) \ {pq[1], pq[2]} : Allowed[r][c] \cap Allowed[r][pq[1]] # {}}

\* The cells whose candidate set the step changes.
ChangedCells == {x \in Cells : Allowed'[x[1]][x[2]] # Allowed[x[1]][x[2]]}

\* C7 as claimed (width 5), for the rows in which some other cell holds a or
\* b: one call TrimNakedSets(2) removes both values of the pair from every
\* other cell of the row and returns true.
C7_Original ==
    [][(pc = "test" /\ last'.op = "TrimNakedSets" /\ last'.v = 2 /\ Size >= 5) =>
          \A r \in 0..(Size - 1) : \A pq \in NakedPairs(r) :
              Holders(r, pq) # {} =>
                  /\ last'.ret
                  /\ \A c \in (0..(Size - 1)) \ {pq[1], pq[2]} :
                        Allowed'[r][c] = Allowed[r][c] \ Allowed[r][pq[1]]]_vars

\* The candidate sets of two cells of the line through x (its row when
\* byRow, else its column), other than x, that are one and the same pair.
PairsBeside(x, byRow) ==
    LET at(k) == IF byRow THEN Allowed[x[1]][k] ELSE Allowed[k][x[2]]
        own == IF byRow THEN x[2] ELSE x[1]
    IN  {at(p) : p \in {k \in (0..(Size - 1)) \ {own} :
                          /\ Cardinality(at(k)) = 2
                          /\ \E q \in (0..(Size - 1)) \ {own, k} : at(q) = at(k)}}

\* C7 as amended (width 5): when a row has two empty cells with the identical
\* candidate set {a,b} and another cell that holds a or b, one call
\* TrimNakedSets(2) returns true.  Every call changes the candidate set of at
\* most one cell and nothing else, and returns true exactly when it changed
\* one: that cell loses both values of a pair that two other cells of its row
\* or column have as their candidate set, and every other cell keeps its
\* candidates (those of the row keep a and b until a later call).
C7_Amended ==
    [][(pc = "test" /\ last'.op = "TrimNakedSets" /\ last'.v = 2 /\ Size >= 5) =>
          /\ (\E r \in 0..(Size - 1) : \E pq \in NakedPairs(r) : Holders(r, pq) # {})
                => last'.ret
          /\ Cardinality(ChangedCells) <= 1
          /\ last'.ret <=> (ChangedCells # {})
          /\ UNCHANGED <<Grid, NumEmpty, RowPerms, ColPerms>>
          /\ \A x \in ChangedCells :
                \E set \in PairsBeside(x, TRUE) \cup PairsBeside(x, FALSE) :
                    /\ Allowed[x[1]][x[2]] \cap set # {}
                    /\ Allowed'[x[1]][x[2]] = Allowed[x[1]][x[2]] \ set]_vars

\* TrimNakedSets(2) has just returned true on a board whose row 0 still has
\* two empty cells with the same pair of candidates, one other cell that has
\* lost both values and one that still holds one of them.
C7_Witness ==
    /\ pc = "test" /\ last.op = "TrimNakedSets" /\ last.v = 2 /\ last.ret /\ Size >= 5
    /\ \E pq \in NakedPairs(0) :
          /\ Holders(0, pq) # {}
          /\ \E c \in (0..(Size - 1)) \ {pq[1], pq[2]} :
                Allowed[0][c] \cap Allowed[0][pq[1]] = {}

\* ---------------------------------------------------------------------- C8
\* The list of a line is present and one of its permutations has v at pos.
Places(list, pos, v) ==
    /\ ~list.nil
    /\ \E k \in 1..Len(list.val) : Perms[list.val[k] + 1][pos + 1] = v

\* C8 as claimed, for the cells whose row and column both have a list: a call
\* of TrimAllowedFromPerms removes v from cell (r,c) exactly when neither the
\* row's list places v at c nor the column's list places v at r.
C8_Original ==
    [][(pc = "TAFP" /\ last'.op = "TrimAllowedFromPerms") =>
          \A x \in Cells :
              (~RowPerms[x[1]].nil /\ ~ColPerms[x[2]].nil) =>
                  \A v \in Allowed[x[1]][x[2]] :
                      (v \notin Allowed'[x[1]][x[2]]) <=>
                          /\ ~Places(RowPerms[x[1]], x[2], v)
                          /\ ~Places(ColPerms[x[2]], x[1], v)]_vars

\* C8 as amended: a call of TrimAllowedFromPerms removes v from cell (r,c)
\* exactly when row r has a list none of whose permutations places v at c, or
\* column c has a list none of whose permutations places v at r; a value is
\* kept only when every present list of the two supports it.  Nothing else
\* changes, and the call returns true exactly when it removed a value.
C8_Amended ==
    [][(pc = "TAFP" /\ last'.op = "TrimAllowedFromPerms") =>
          /\ \A x \in Cells :
                Allowed'[x[1]][x[2]] =
                    {v \in Allowed[x[1]][x[2]] :
                        /\ RowPerms[x[1]].nil \/ Places(RowPerms[x[1]], x[2], v)
                        /\ ColPerms[x[2]].nil \/ Places(ColPerms[x[2]], x[1], v)}
          /\ last'.ret <=> (Allowed' # Allowed)
          /\ UNCHANGED <<Grid, NumEmpty, RowPerms, ColPerms, Perms>>]_vars

\* TrimAllowedFromPerms has just removed candidates, and some cell has lost a
\* value that its column's list still places there: its row's list alone
\* ruled the value out.
C8_Witness ==
    /\ last.op = "TrimAllowedFromPerms" /\ last.ret
    /\ \E x \in Cells : \E v \in (1..Size) \ Allowed[x[1]][x[2]] :
          /\ ~RowPerms[x[1]].nil /\ ~Places(RowPerms[x[1]], x[2], v)
          /\ Places(ColPerms[x[2]], x[1], v)

\* ---------------------------------------------------------------------- C9
\* C9: when BoardFromString returns, every permutation of a present row or
\* column list assigns to each position of its line a value allowed in that
\* cell, and every candidate of a cell is placed at that position by some
\* permutation of each present list of its row and column.
C9_Original ==
    last.op = "BoardFromString" =>
        /\ \A i \in 0..(Size - 1) :
              /\ ~RowPerms[i].nil =>
                    \A k \in 1..Len(RowPerms[i].val) : \A c \in 0..(Size - 1) :
                        Perms[RowPerms[i].val[k] + 1][c + 1] \in Allowed[i][c]
              /\ ~ColPerms[i].nil =>
                    \A k \in 1..Len(ColPerms[i].val) : \A r \in 0..(Size - 1) :
                        Perms[ColPerms[i].val[k] + 1][r + 1] \in Allowed[r][i]
        /\ \A x \in Cells : \A v \in Allowed[x[1]][x[2]] :
              /\ RowPerms[x[1]].nil \/ Places(RowPerms[x[1]], x[2], v)
              /\ ColPerms[x[2]].nil \/ Places(ColPerms[x[2]], x[1], v)

\* --------------------------------------------------------------------- C10
\* The input has no clue and no pre-filled cell.
ZeroInput == \A ri \in DOMAIN inputs : \A ci \in DOMAIN inputs[ri] : inputs[ri][ci] = 0

\* AutoSolve has returned Stalled on a board that is as BoardFromString of an
\* input without clues and pre-filled cells leaves it.
Untouched ==
    /\ last.err = "empty"
    /\ NumEmpty = Size * Size
    /\ \A x \in Cells : Allowed[x[1]][x[2]] = 1..Size /\ Grid[x[1]][x[2]] = EMPTY

\* C10 as claimed: for every size N >= 1 AutoSolve on the puzzle without
\* clues and pre-filled cells returns Stalled, NumEmpty still N*N, every
\* candidate set full, the grid empty.
C10_Original == (pc = "done" /\ ZeroInput) => Untouched

\* C10 as amended: on the puzzle without clues and pre-filled cells AutoSolve
\* terminates; for every size N >= 2 it returns Stalled with NumEmpty still
\* N*N, every candidate set full and the grid empty; for N = 1 it returns
\* Solved, MarkMandatory having written 1 into the only cell.
C10_Amended ==
    /\ ZeroInput => <>(pc = "done")
    /\ [](( pc = "done" /\ ZeroInput) =>
            IF Size >= 2 THEN Untouched
            ELSE last.err = "nil" /\ NumEmpty = 0 /\ Grid[0][0] = 1 /\ Allowed[0][0] = {1})

\* AutoSolve has stalled on the largest puzzle without clues, after trying
\* the pattern heuristics.
C10_Witness ==
    /\ pc = "done" /\ ZeroInput /\ Size = MaxSize /\ Untouched
    /\ last.op = "AutoSolve" /\ n > 2

\* ---------------------------------------------------------------------- C11
\* The input of size m with an empty interior whose from-low-index clues (top
\* and left) are all `low` and whose from-high-index clues (bottom and right)
\* are all `high`; 0 is no clue.
UniformPuzzle(m, low, high) ==
    [ri \in 0..(m + 1) |-> [ci \in 0..(m + 1) |->
        IF (ri = 0 \/ ri = m + 1) /\ (ci = 0 \/ ci = m + 1) THEN 0
        ELSE IF ri = 0 \/ ci = 0 THEN low
        ELSE IF ri = m + 1 \/ ci = m + 1 THEN high
        ELSE 0]]

UniformPuzzles ==
    UNION {{[inp |-> UniformPuzzle(m, low, high),
             sol |-> CyclicSquare(m, Permute(0, m - 1, m)[1])] :
                low \in 0..m, high \in 0..m} : m \in 1..MaxSize}

UniformInit == InitWith(UniformPuzzles)

\* main on the puzzles with the same clue all along a side.
SpecUniform == UniformInit /\ [][Next]_vars

FairUniform == SpecUniform /\ WF_<<pc, n>>(Advance)

\* The example of the specification: 4x4, low clues 1, high clues 4.
ExampleInput == inputs = UniformPuzzle(4, 1, 4)

\* C11 as claimed: on the 4x4 puzzle whose top and left clues are all 1 and
\* whose bottom and right clues are all 4, AutoSolve ends Solved: Solved()
\* returns no error and NumEmpty is 0.
C11_Original ==
    (pc = "done" /\ ExampleInput) => (last.err = "nil" /\ NumEmpty = 0)

\* C11 as amended: that puzzle has no solution (its clues force 4 into every
\* cell of the first row); AutoSolve terminates on it Stalled: Solved() returns
\* the incomplete error, only the diagonal is filled (with 4, 3, 2, 1, so
\* NumEmpty is 12), every candidate set is empty and so is every row's and
\* column's permutation list.
C11_Amended ==
    /\ ExampleInput => <>(pc = "done")
    /\ [](( pc = "done" /\ ExampleInput) =>
            /\ last.op = "AutoSolve" /\ ~last.ret /\ last.err = "empty"
            /\ NumEmpty = 12
            /\ \A x \in Cells :
                  /\ Grid[x[1]][x[2]] = IF x[1] = x[2] THEN 4 - x[1] ELSE EMPTY
                  /\ Allowed[x[1]][x[2]] = {}
            /\ \A i \in 0..(Size - 1) :
                  /\ ~RowPerms[i].nil /\ RowPerms[i].val = <<>>
                  /\ ~ColPerms[i].nil /\ ColPerms[i].val = <<>>)

\* AutoSolve has returned on the example puzzle.
C11_Witness == pc = "done" /\ ExampleInput /\ Size = 4 /\ NumEmpty = 12

\* ---------------------------------------------------------------------- C12
\* The values of the grid along observer o's line, nearest to the observer
\* first.
LineSeenBy(o) ==
    LET line == IF o.Type = OBS_ROW THEN [k \in 1..Size |-> Grid[o.Index][k - 1]]
                ELSE [k \in 1..Size |-> Grid[k - 1][o.Index]]
    IN  IF o.Direction = OBS_BWD THEN Reverse(line) ELSE line

\* The positions in Observers (the order of registration) of the observers
\* whose visible count on the grid is not their required count.
Unsatisfied == {k \in 1..Len(Observers) : Visible(LineSeenBy(Observers[k])) # Observers[k].Count}

\* C12: Solved() returns the incomplete error whenever NumEmpty # 0, whatever
\* the observers; otherwise the observer error naming the first observer, in
\* registration order, whose visible count differs from its required count;
\* it returns success exactly when NumEmpty = 0 and every registered observer
\* is satisfied; and it leaves the board as it is.  (AutoSolve's loop test and
\* its return statement are the calls of Solved.)
C12_Solved ==
    [][(pc = "loop" /\ last'.op \in {"Solved", "AutoSolve"}) =>
          /\ UNCHANGED boardVars
          /\ NumEmpty # 0 => last'.err = "empty"
          /\ (NumEmpty = 0 /\ Unsatisfied # {}) =>
                /\ last'.err = "observer"
                /\ Solved(Board).obs = Observers[CHOOSE k \in Unsatisfied :
                                                   \A j \in Unsatisfied : k <= j]
          /\ last'.err = "nil" <=> (NumEmpty = 0 /\ Unsatisfied = {})]_vars

\* Solved has returned the observer error on a full grid on which two
\* observers are unsatisfied.
C12_Witness ==
    /\ pc = "done" /\ last.err = "observer" /\ NumEmpty = 0
    /\ Cardinality(Unsatisfied) >= 2

\* ---------------------------------------------------------------------- C13
\* The cells other than (r, c) in row r or column c.
Neighbours(r, c) == {x \in Cells : (x[1] = r) # (x[2] = c)}

\* What both forms of C13 say about a call Mark(r, c, v) that changed the
\* grid, apart from the marked cell's own candidate set.
MarkFrame(r, c, v) ==
    /\ \A x \in Neighbours(r, c) : v \notin Allowed'[x[1]][x[2]]
    /\ \A x \in Cells \ (Neighbours(r, c) \cup {<<r, c>>}) :
          Allowed'[x[1]][x[2]] = Allowed[x[1]][x[2]]
    /\ last'.ret2 <=> (\E x \in Neighbours(r, c) : v \in Allowed[x[1]][x[2]])

\* C13 as claimed: when Mark(r,c,v) changes the grid cell, afterwards no other
\* cell of row r or column c has v as a candidate, the candidate set of (r,c)
\* is exactly {v}, the cells outside the row and the column keep their sets,
\* and neighbor_affected is true exactly when another cell of the row or the
\* column held v before.
C13_Original ==
    [][(pc = "api" /\ last'.op = "Mark" /\ last'.ret) =>
          /\ MarkFrame(last'.r, last'.c, last'.v)
          /\ Allowed'[last'.r][last'.c] = {last'.v}]_vars

\* C13 as amended: as claimed, except that the marked cell's candidate set
\* loses every value other than v: it is {v} when v was a candidate of the
\* cell before the call and empty when it was not.  The neighbours lose v and
\* nothing else, and the grid cell holds v.
C13_Amended ==
    [][(pc = "api" /\ last'.op = "Mark" /\ last'.ret) =>
          /\ MarkFrame(last'.r, last'.c, last'.v)
          /\ Allowed'[last'.r][last'.c] = Allowed[last'.r][last'.c] \cap {last'.v}
          /\ \A x \in Neighbours(last'.r, last'.c) :
                Allowed'[x[1]][x[2]] = Allowed[x[1]][x[2]] \ {last'.v}
          /\ Grid'[last'.r][last'.c] = last'.v
          /\ Grid[last'.r][last'.c] # last'.v]_vars

\* Mark has just changed a cell whose value was a candidate, and struck the
\* value from a neighbour.
C13_Witness ==
    /\ pc = "api" /\ last.op = "Mark" /\ last.ret /\ last.ret2
    /\ Grid[last.r][last.c] = last.v
    /\ Allowed[last.r][last.c] = {last.v}

\* ---------------------------------------------------------------------- C14
\* A caller of Permute: one call with any range low..high of at most MaxPop
\* values that starts between -MaxLow and MaxLow, and any r from 1 to the
\* number of values; the result is kept in Perms, as BoardFromString keeps
\* PermuteN's.

\* Largest distance of low from 0.
MaxLow == 3
\* Largest number of values of the range.
MaxPop == 4

PermuteInit ==
    /\ \E low \in (-MaxLow)..MaxLow, pop \in 1..MaxPop :
          \E r \in 1..pop : inputs = [low |-> low, high |-> low + pop - 1, r |-> r]
    /\ sol = <<>>
    /\ Grid = ZeroBoard.Grid
    /\ Allowed = ZeroBoard.Allowed
    /\ NumEmpty = ZeroBoard.NumEmpty
    /\ Size = ZeroBoard.Size
    /\ Observers = ZeroBoard.Observers
    /\ ObsSorted = ZeroBoard.ObsSorted
    /\ Perms = ZeroBoard.Perms
    /\ RowPerms = ZeroBoard.RowPerms
    /\ ColPerms = ZeroBoard.ColPerms
    /\ panicked = FALSE
    /\ pc = "start"
    /\ changed = FALSE
    /\ n = 0
    /\ last = NoCall
    /\ calls = 0

PermuteCall ==
    /\ pc = "start"
    /\ Perms' = Permute(inputs.low, inputs.high, inputs.r)
    /\ pc' = "permuted"
    /\ last' = Call("Permute", inputs.r, FALSE)
    /\ UNCHANGED <<inputs, sol, Grid, Allowed, NumEmpty, Size, Observers, ObsSorted,
                   RowPerms, ColPerms, panicked, changed, n, calls>>

SpecPermute == PermuteInit /\ [][PermuteCall]_vars

RECURSIVE Factorial(_)
Factorial(k) == IF k <= 1 THEN 1 ELSE k * Factorial(k - 1)

\* Sequence a comes before sequence b (of the same length) in the
\* lexicographic order.
LexLess(a, b) ==
    \E i \in 1..Len(a) : a[i] < b[i] /\ \A j \in 1..(i - 1) : a[j] = b[j]

\* C14: for low <= high and 1 <= r <= high-low+1, Permute(low, high, r)
\* returns exactly (high-low+1)!/(high-low+1-r)! sequences, pairwise distinct,
\* each of length r, with elements of low..high and no element twice; every
\* ordered selection of r distinct values of the range is among them; and
\* they come in lexicographic order.
C14_Permute ==
    pc = "permuted" =>
        LET pop == inputs.high - inputs.low + 1
            range == inputs.low..inputs.high
        IN  /\ Len(Perms) = Factorial(pop) \div Factorial(pop - inputs.r)
            /\ \A i, j \in 1..Len(Perms) : Perms[i] = Perms[j] => i = j
            /\ \A i \in 1..Len(Perms) :
                  /\ Len(Perms[i]) = inputs.r
                  /\ \A k \in 1..inputs.r : Perms[i][k] \in range
                  /\ \A k, l \in 1..inputs.r : Perms[i][k] = Perms[i][l] => k = l
            /\ \A f \in [1..inputs.r -> range] :
                  (\A k, l \in 1..inputs.r : f[k] = f[l] => k = l)
                      => \E i \in 1..Len(Perms) : Perms[i] = f
            /\ \A i \in 1..(Len(Perms) - 1) : LexLess(Perms[i], Perms[i + 1])

\* Permute has returned the ordered pairs of a range of MaxPop values that
\* does not start at 0 or 1.
C14_Witness ==
    /\ pc = "permuted" /\ last.op = "Permute"
    /\ inputs.r = 2 /\ inputs.high - inputs.low + 1 = MaxPop /\ inputs.low < 0
    /\ Len(Perms) = MaxPop * (MaxPop - 1)

\* ---------------------------------------------------------------------- C15
\* A caller of AddObserver: it constructs a board with no clue or with the
\* top and left clues 1, and then registers up to MaxObsCalls observers of
\* any axis, line, direction and count 0..MaxCount.

\* Largest board of this caller.
MaxObsSize == 2
\* Largest required count of an observer this caller registers.
MaxCount == 2
\* Number of AddObserver calls this caller makes.
MaxObsCalls == 2

ObsPuzzles ==
    UNION {{[inp |-> UniformPuzzle(m, low, 0),
             sol |-> CyclicSquare(m, Permute(0, m - 1, m)[1])] : low \in 0..1} :
           m \in 1..MaxObsSize}

ObsInit == InitWith(ObsPuzzles)

ObsConstruct ==
    /\ pc = "start"
    /\ LET st == BoardFromString(inputs)
       IN  /\ StoreBoard(st.b)
           /\ panicked' = st.panic
           /\ pc' = IF st.panic THEN "panic" ELSE "obs"
    /\ last' = Call("BoardFromString", 0, FALSE)
    /\ UNCHANGED <<inputs, sol, changed, n, calls>>

\* b.AddObserver(&o); last.v is o and last.ret is "returned without panic".
ObsAdd ==
    /\ pc = "obs" /\ calls < MaxObsCalls
    /\ \E o \in [Type : {OBS_ROW, OBS_COL}, Index : 0..(Size - 1),
                 Direction : {OBS_FWD, OBS_BWD}, Count : 0..MaxCount] :
          LET st == AddObserver(Board, o)
          IN  /\ StoreBoard(st.b)
              /\ panicked' = st.panic
              /\ pc' = IF st.panic THEN "panic" ELSE "obs"
              /\ last' = Call("AddObserver", o, ~st.panic)
    /\ calls' = calls + 1
    /\ UNCHANGED <<inputs, sol, changed, n>>

ObsNext == ObsConstruct \/ ObsAdd

SpecObs == ObsInit /\ [][ObsNext]_vars

\* The slot of ObsSorted that belongs to o's axis, line and direction.
SlotOf(o) ==
    (IF o.Type = OBS_ROW THEN 0 ELSE 2 * Size) + 2 * o.Index
        + (IF o.Direction = OBS_BWD THEN 1 ELSE 0)

\* C15: after any sequence of AddObserver calls every slot of ObsSorted holds
\* at most one observer (an observer of that slot's axis, line and direction,
\* registered once), and a call never overwrites an occupied slot;
\* registering an observer with non-zero count for an occupied slot ends in
\* the fatal error (panic), and no other call does; an observer with count 0
\* is not registered: the call leaves the board as it is.
C15_Slots ==
    /\ [](pc = "obs" =>
            /\ \A k \in DOMAIN ObsSorted :
                  ObsSorted[k] # NilObs =>
                      /\ SlotOf(ObsSorted[k]) = k
                      /\ ObsSorted[k].Count # 0
                      /\ Cardinality({i \in 1..Len(Observers) : SlotOf(Observers[i]) = k}) = 1
            /\ \A i \in 1..Len(Observers) : ObsSorted[SlotOf(Observers[i])] = Observers[i])
    /\ [][(pc = "obs" /\ last'.op = "AddObserver") =>
            LET o == last'.v
            IN  /\ \A k \in DOMAIN ObsSorted :
                      ObsSorted[k] # NilObs => ObsSorted'[k] = ObsSorted[k]
                /\ (pc' = "panic") <=> (o.Count # 0 /\ ObsSorted[SlotOf(o)] # NilObs)
                /\ o.Count = 0 => UNCHANGED boardVars
                /\ (o.Count # 0 /\ ObsSorted[SlotOf(o)] = NilObs) =>
                      /\ ObsSorted' = [ObsSorted EXCEPT ![SlotOf(o)] = o]
                      /\ Observers' = Append(Observers, o)]_vars

\* A second observer for an occupied slot has ended in the panic, after an
\* observer was registered by a call and one with count 0 was not.
C15_Witness ==
    /\ pc = "panic" /\ last.op = "AddObserver" /\ last.v.Count # 0
    /\ ObsSorted[SlotOf(last.v)] # NilObs
    /\ ObsSorted[SlotOf(last.v)] # last.v
    /\ calls = MaxObsCalls

\* ---------------------------------------------------------------------- C16
\* A caller of the two visibility evaluators: it constructs a blank board of
\* any size up to MaxVisSize, fills its first or last row or column (sol
\* names the line) cell by cell with any values of 1..Size, repeated values
\* included, and then evaluates an observer of that line, of any direction
\* and any count 0..Size+1, with ObserverSatisfied on the grid and with
\* PermFitsObs on the line's values.

\* Largest board of this caller.
MaxVisSize == 4

VisInit ==
    /\ InitWith({[inp |-> UniformPuzzle(m, 0, 0), sol |-> [Type |-> t, Index |-> i]] :
                    m \in 1..MaxVisSize, t \in {OBS_ROW, OBS_COL}, i \in 0..(MaxVisSize - 1)})
    /\ sol.Index \in {0, Cardinality(DOMAIN inputs) - 3}

VisConstruct ==
    /\ pc = "start"
    /\ LET st == BoardFromString(inputs)
       IN  /\ StoreBoard(st.b)
           /\ panicked' = st.panic
           /\ pc' = IF st.panic THEN "panic" ELSE "fill"
    /\ n' = 0
    /\ last' = Call("BoardFromString", 0, FALSE)
    /\ UNCHANGED <<inputs, sol, changed, calls>>

\* b.Set on the next cell n of the line.
VisSet ==
    /\ pc = "fill" /\ n < Size
    /\ \E v \in 1..Size :
          LET ri == IF sol.Type = OBS_ROW THEN sol.Index ELSE n
              ci == IF sol.Type = OBS_ROW THEN n ELSE sol.Index
              r == Set(Board, ri, ci, v)
          IN  /\ StoreBoard(r.b)
              /\ last' = ApiCall("Set", ri, ci, v, r.ret, FALSE)
    /\ n' = n + 1
    /\ UNCHANGED <<inputs, sol, panicked, pc, changed, calls>>

\* The values of the grid along the line sol, by increasing index.
VisLine ==
    [k \in 1..Size |-> IF sol.Type = OBS_ROW THEN Get(Board, sol.Index, k - 1)
                       ELSE Get(Board, k - 1, sol.Index)]

\* b.ObserverSatisfied(&o) (last.ret) and PermFitsObs(line, &o, nil) or
\* PermFitsObs(line, nil, &o) (last.ret2) for an observer o of the line.
VisCheck ==
    /\ pc = "fill" /\ n = Size
    /\ \E d \in {OBS_FWD, OBS_BWD}, count \in 0..(Size + 1) :
          LET o == [Type |-> sol.Type, Index |-> sol.Index, Direction |-> d, Count |-> count]
          IN  last' = [NoCall EXCEPT
                          !.op = "ObserverSatisfied", !.v = o,
                          !.ret = ObserverSatisfied(Board, o),
                          !.ret2 = IF d = OBS_FWD THEN PermFitsObs(VisLine, o, NilObs)
                                   ELSE PermFitsObs(VisLine, NilObs, o)]
    /\ pc' = "checked"
    /\ UNCHANGED <<inputs, sol, boardVars, panicked, changed, n, calls>>

VisNext == VisConstruct \/ VisSet \/ VisCheck

SpecVis == VisInit /\ [][VisNext]_vars

C17_MarkNoOp ==
    [][(pc = "api" /\ last'.op = "Mark" /\ Grid[last'.r][last'.c] = last'.v) =>
          /\ ~last'.ret /\ ~last'.ret2
          /\ UNCHANGED boardVars]_vars

\* Mark has returned (false, false) on a cell that holds the value (written
\* by Set) while a neighbour of the cell and the cell itself still have
\* candidates the effect of Mark would have removed.
C17_Witness ==
    /\ pc = "api" /\ last.op = "Mark" /\ ~last.ret /\ ~last.ret2
    /\ Grid[last.r][last.c] = last.v
    /\ \E x \in Neighbours(last.r, last.c) : last.v \in Allowed[x[1]][x[2]]
    /\ Allowed[last.r][last.c] # {last.v}

\* ---------------------------------------------------------------------- C18
\* main on puzzles of width 5, where the pattern heuristics have the two
\* sizes 2 and 3.  The puzzles are drawn from a Latin square whose rows 1..3
\* hold the same three values in columns 0 and 1, so that pre-filling those
\* six cells leaves a naked pair in rows 0 and 4.
WideRows ==
    << <<1, 2, 3, 4, 5>>,
       <<3, 4, 5, 2, 1>>,
       <<4, 5, 1, 3, 2>>,
       <<5, 3, 2, 1, 4>>,
       <<2, 1, 4, 5, 3>> >>

WideSquare ==
    [r \in 0..(Len(WideRows) - 1) |-> [c \in 0..(Len(WideRows) - 1) |-> WideRows[r + 1][c + 1]]]

\* The cells a puzzle of WideSquare has pre-filled: none, the block of rows
\* 1..3 in columns 0..1, that block without its last cell, the block and the
\* rest of row 1, or six scattered cells that leave the values 3 and 5 with
\* the same two homes in a line (a found group).
WidePrefills ==
    LET block == (1..3) \X (0..1)
    IN  {{}, block, block \ {<<3, 1>>}, block \cup ({1} \X (2..4)),
         {<<0, 1>>, <<1, 1>>, <<2, 3>>, <<3, 2>>, <<3, 4>>, <<4, 3>>}}

WidePuzzles ==
    {[inp |-> [ri \in 0..(Len(WideRows) + 1) |-> [ci \in 0..(Len(WideRows) + 1) |->
                  IF <<ri - 1, ci - 1>> \in cells THEN WideSquare[ri - 1][ci - 1]
                  ELSE Puzzle(WideSquare, Len(WideRows), sides, 0)[ri][ci]]],
      sol |-> WideSquare] :
        sides \in SUBSET Sides, cells \in WidePrefills}

WideInit == InitWith(WidePuzzles)

SpecWide == WideInit /\ [][Next]_vars

\* The pattern heuristics' sizes: 2 .. N-2.
HeuristicSizes == 2..(Size - 2)

\* C18: in every iteration of AutoSolve (it starts when the loop test's
\* Solved has failed) the rules run in the order MarkMandatory,
\* TrimAllowedFromPerms, TrimPermsFromAllowed; TrimNakedSets is called only
\* when none of the three reported a change, TrimFoundGroups only when in
\* addition no naked-set size did; both are called only with the sizes
\* 2 .. N-2, from 2 upwards one by one; and once a size has reported a change
\* the next call is the loop test: no larger size and no later heuristic is
\* tried in that iteration.
C18_Order ==
    [][(pc \notin {"start", "done"} /\ last'.op \in Rules \cup {"Solved", "AutoSolve"}) =>
          /\ last'.op = "MarkMandatory" =>
                last.op = "Solved" /\ last.err # "nil" /\ changed' = last'.ret
          /\ last'.op = "TrimAllowedFromPerms" =>
                last.op = "MarkMandatory" /\ changed' = (last.ret \/ last'.ret)
          /\ last'.op = "TrimPermsFromAllowed" =>
                last.op = "TrimAllowedFromPerms" /\ changed' = (changed \/ last'.ret)
          /\ last'.op = "TrimNakedSets" =>
                /\ last'.v \in HeuristicSizes
                /\ ~last.ret /\ ~changed
                /\ \/ last.op = "TrimPermsFromAllowed" /\ last'.v = 2
                   \/ last.op = "TrimNakedSets" /\ last'.v = last.v + 1
          /\ last'.op = "TrimFoundGroups" =>
                /\ last'.v \in HeuristicSizes
                /\ ~last.ret /\ ~changed
                /\ \/ last.op = "TrimNakedSets" /\ last.v = Size - 2 /\ last'.v = 2
                   \/ last.op = "TrimFoundGroups" /\ last'.v = last.v + 1
          /\ last'.op \in {"Solved", "AutoSolve"} =>
                \/ last.op = "BoardFromString"
                \/ last.op = "TrimPermsFromAllowed" /\ (changed \/ HeuristicSizes = {})
                \/ last.op = "TrimNakedSets" /\ last.ret
                \/ last.op = "TrimFoundGroups" /\ (last.ret \/ last.v = Size - 2)
          /\ (last.op \in {"TrimNakedSets", "TrimFoundGroups"} /\ last.ret) =>
                last'.op \in {"Solved", "AutoSolve"}]_vars

\* TrimNakedSets(2) has reported a change on a board of width 5, where size 3
\* was still to come.
C18_Witness ==
    /\ pc = "loop" /\ last.op = "TrimNakedSets" /\ last.v = 2 /\ last.ret
    /\ Size = 5 /\ changed

\* ---------------------------------------------------------------------- C19
\* Rule application r leaves board b as it is and reports no change.
NoEffect(r, b) == ~r.ret /\ r.b = b

\* C19: when AutoSolve has returned with Solved() still failing, the final
\* state is a fixed point of every rule: MarkMandatory, TrimAllowedFromPerms,
\* TrimPermsFromAllowed, and TrimNakedSets(n) and TrimFoundGroups(n) for every
\* n in 2 .. N-2 would return false and change nothing; and AutoSolve returns
\* success exactly when the final state passes Solved().
C19_FixedPoint ==
    pc = "done" =>
        /\ last.op = "AutoSolve"
        /\ last.err = Solved(Board).err
        /\ last.ret <=> (Solved(Board).err = "nil")
        /\ Solved(Board).err # "nil" =>
              /\ NoEffect(MarkMandatory(Board), Board)
              /\ NoEffect(TrimAllowedFromPerms(Board), Board)
              /\ NoEffect(TrimPermsFromAllowed(Board), Board)
              /\ \A m \in HeuristicSizes :
                    /\ NoEffect(TrimNakedSets(Board, m), Board)
                    /\ NoEffect(TrimFoundGroups(Board, m), Board)

\* AutoSolve has returned Stalled on a board of width 5 after it filled some
\* cells, with clues on the board and cells still empty.
C19_Witness ==
    /\ pc = "done" /\ last.op = "AutoSolve" /\ ~last.ret /\ last.err = "empty"
    /\ Size = 5 /\ NumEmpty > 0 /\ NumEmpty < 20
    /\ Len(Observers) > 0

\* ---------------------------------------------------------------------- C20
\* The cells whose grid value the step changes.
Filled == {x \in Cells : Grid'[x[1]][x[2]] # Grid[x[1]][x[2]]}

\* C20: when MarkMandatory returns, no cell is both empty and left with
\* exactly one candidate, also when a mark made late in a scan has reduced a
\* cell scanned earlier to one candidate; it returns true exactly when it
\* filled at least one cell; and it only fills empty cells, each with a value
\* that was the cell's candidate and is the only one left to it.
C20_MarkMandatory ==
    [][(pc = "MM" /\ last'.op = "MarkMandatory") =>
          /\ \A x \in Cells :
                ~(Grid'[x[1]][x[2]] = EMPTY /\ Cardinality(Allowed'[x[1]][x[2]]) = 1)
          /\ last'.ret <=> (Filled # {})
          /\ NumEmpty' = NumEmpty - Cardinality(Filled)
          /\ \A x \in Filled :
                /\ Grid[x[1]][x[2]] = EMPTY
                /\ Grid'[x[1]][x[2]] \in Allowed[x[1]][x[2]]
                /\ Allowed'[x[1]][x[2]] \subseteq {Grid'[x[1]][x[2]]}
          /\ \A x \in Cells \ Filled :
                (Grid[x[1]][x[2]] = EMPTY /\ Cardinality(Allowed[x[1]][x[2]]) = 1)
                    => Allowed'[x[1]][x[2]] = {}]_vars

\* The first MarkMandatory of a run has returned after more than one scan:
\* its first scan left an empty cell with one candidate, reduced to it by a
\* mark made later in that scan, and the cell is filled now.
C20_Witness ==
    /\ pc = "TAFP" /\ last.op = "MarkMandatory" /\ last.ret
    /\ LET b0 == BoardFromString(inputs).b
           st == MarkScan([b |-> b0, changed |-> FALSE, redo |-> FALSE], 0)
       IN  /\ Board = MarkMandatory(b0).b
           /\ \E x \in Cells :
                 /\ Cardinality(b0.Allowed[x[1]][x[2]]) > 1
                 /\ st.b.Grid[x[1]][x[2]] = EMPTY
                 /\ Cardinality(st.b.Allowed[x[1]][x[2]]) = 1
                 /\ Grid[x[1]][x[2]] # EMPTY

\* ---------------------------------------------------------------------- C21
\* The candidate sets that make a naked set of size m beside x: the sets of
\* m values that at least m empty cells of the line through x (its row when
\* byRow, else its column), x not among them, all have as their candidate set.
NakedSetsBeside(x, byRow, m) ==
    LET at(k) == IF byRow THEN Allowed[x[1]][k] ELSE Allowed[k][x[2]]
        empty(k) == IF byRow THEN Grid[x[1]][k] = EMPTY ELSE Grid[k][x[2]] = EMPTY
        others == (0..(Size - 1)) \ {IF byRow THEN x[2] ELSE x[1]}
    IN  {at(p) : p \in {k \in others :
                          /\ empty(k)
                          /\ Cardinality(at(k)) = m
                          /\ Cardinality({q \in others : empty(q) /\ at(q) = at(k)}) >= m}}

\* C21: a call TrimNakedSets(n) changes the candidate set of at most one cell
\* and nothing else; it returns true exactly when it removed a candidate; the
\* changed cell lies in a line with n other cells that are empty and have one
\* and the same candidate set of n values, and it loses values of that set
\* only (every one of them it held).
C21_SingleChange ==
    [][last'.op = "TrimNakedSets" =>
          /\ Cardinality(ChangedCells) <= 1
          /\ UNCHANGED <<Grid, NumEmpty, RowPerms, ColPerms, Observers, ObsSorted, Size>>
          /\ last'.ret <=> (\E x \in Cells : \E v \in Allowed[x[1]][x[2]] :
                                v \notin Allowed'[x[1]][x[2]])
          /\ \A x \in ChangedCells :
                \E set \in NakedSetsBeside(x, TRUE, last'.v)
                             \cup NakedSetsBeside(x, FALSE, last'.v) :
                    /\ Allowed[x[1]][x[2]] \cap set # {}
                    /\ Allowed'[x[1]][x[2]] = Allowed[x[1]][x[2]] \ set]_vars

\* TrimNakedSets(n) has just returned true on a board with filled cells: a
\* line has n empty cells with one candidate set of n values, a further cell
\* that holds none of them, and a further cell that still holds one.
C21_Witness ==
    /\ last.op = "TrimNakedSets" /\ last.ret /\ NumEmpty < Size * Size
    /\ \E x \in Cells, y \in Cells, byRow \in BOOLEAN :
          /\ x # y
          /\ IF byRow THEN x[1] = y[1] ELSE x[2] = y[2]
          /\ \E set \in NakedSetsBeside(x, byRow, last.v) \cap NakedSetsBeside(y, byRow, last.v) :
                /\ Allowed[x[1]][x[2]] # {} /\ Allowed[x[1]][x[2]] \cap set = {}
                /\ Allowed[y[1]][y[2]] \cap set # {}

\* ---------------------------------------------------------------------- C22
\* The cell at position k of a line: row `line` when byRow, else column `line`.
CellAt(byRow, line, k) == IF byRow THEN <<line, k>> ELSE <<k, line>>

\* The positions of a line at which v is a candidate.
Homes(byRow, line, v) ==
    {k \in 0..(Size - 1) : v \in Allowed[CellAt(byRow, line, k)[1]][CellAt(byRow, line, k)[2]]}

\* The found groups of size m of the board: a line and a set of m values
\* that all have the same m candidate positions in it.
FoundGroups(m) ==
    {g \in [byRow : BOOLEAN, line : 0..(Size - 1), vals : SUBSET (1..Size)] :
        /\ Cardinality(g.vals) = m
        /\ \A v \in g.vals :
              /\ Cardinality(Homes(g.byRow, g.line, v)) = m
              /\ \A w \in g.vals : Homes(g.byRow, g.line, w) = Homes(g.byRow, g.line, v)}

\* The cells of a found group.
GroupCells(g) ==
    {CellAt(g.byRow, g.line, k) : k \in UNION {Homes(g.byRow, g.line, v) : v \in g.vals}}

\* Some candidate is removed by the step.
Removed == \E x \in Cells : \E v \in Allowed[x[1]][x[2]] : v \notin Allowed'[x[1]][x[2]]

\* C22 as claimed: after TrimFoundGroups(n) every position of every group
\* found on the board of the call holds values of its group only; no candidate
\* is removed from a cell that is not a position of such a group; the call
\* returns true exactly when a candidate was removed.
C22_Original ==
    [][last'.op = "TrimFoundGroups" =>
          /\ \A g \in FoundGroups(last'.v) : \A x \in GroupCells(g) :
                Allowed'[x[1]][x[2]] \subseteq g.vals
          /\ \A x \in ChangedCells : \E g \in FoundGroups(last'.v) : x \in GroupCells(g)
          /\ last'.ret <=> Removed]_vars

\* v is a candidate of cell x before the step and not after it.
Lost(x, v) == v \in Allowed[x[1]][x[2]] /\ v \notin Allowed'[x[1]][x[2]]

\* The groups are examined one after another on the board as the eliminations
\* made so far in the call have left it: x was trimmed as a position of a
\* group of m values in one of its lines.  Every value of the group was a
\* candidate at each of m positions of the line, x among them, before the
\* call, none is a candidate elsewhere in the line after it, and x holds
\* values of the group only.
TrimmedInGroup(x, m) ==
    \E byRow \in BOOLEAN :
        LET line == IF byRow THEN x[1] ELSE x[2]
            own == IF byRow THEN x[2] ELSE x[1]
            at(k) == Allowed[CellAt(byRow, line, k)[1]][CellAt(byRow, line, k)[2]]
        IN  \E V \in {W \in SUBSET (1..Size) :
                        Cardinality(W) = m /\ Allowed'[x[1]][x[2]] \subseteq W} :
                LET P == {k \in 0..(Size - 1) : V \subseteq at(k)}
                    after(k) == Allowed'[CellAt(byRow, line, k)[1]][CellAt(byRow, line, k)[2]]
                IN  /\ own \in P
                    /\ Cardinality(P) >= m
                    /\ Cardinality({k \in 0..(Size - 1) : after(k) \cap V # {}}) <= m

\* C22 as amended: for every group found on the board of the call, after
\* TrimFoundGroups(n) either every position of the group holds values of the
\* group only, or a value of the group has been removed from one of its
\* positions (by the elimination of a group that shares a cell with it).
\* Cells only lose candidates, every cell that loses one was trimmed as a
\* position of a group and keeps at least one candidate, nothing but candidate
\* sets changes, and the call returns true exactly when a candidate was
\* removed.
C22_Amended ==
    [][last'.op = "TrimFoundGroups" =>
          /\ \A g \in FoundGroups(last'.v) :
                \/ \A x \in GroupCells(g) : Allowed'[x[1]][x[2]] \subseteq g.vals
                \/ \E x \in GroupCells(g) : \E v \in g.vals : Lost(x, v)
          /\ \A x \in Cells : Allowed'[x[1]][x[2]] \subseteq Allowed[x[1]][x[2]]
          /\ \A x \in ChangedCells :
                Allowed'[x[1]][x[2]] # {} /\ TrimmedInGroup(x, last'.v)
          /\ UNCHANGED <<Grid, NumEmpty, RowPerms, ColPerms, Observers, ObsSorted, Size>>
          /\ last'.ret <=> Removed]_vars

\* TrimFoundGroups(2) has just returned true on the test board: two cells of
\* row 0 are the only homes of two values and hold nothing else, and a third
\* value, which is a candidate in the rows below, has no home left in row 0
\* (its group shared the two cells).
C22_Witness ==
    /\ pc = "test" /\ last.op = "TrimFoundGroups" /\ last.v = 2 /\ last.ret
    /\ \E g \in FoundGroups(2) :
          /\ g.byRow /\ g.line = 0
          /\ \A x \in GroupCells(g) : Allowed[x[1]][x[2]] = g.vals
          /\ \E w \in (1..Size) \ g.vals :
                /\ Homes(TRUE, 0, w) = {}
                /\ \A k \in 0..(Size - 1) : Cardinality(Allowed[0][k]) = 2

\* ---------------------------------------------------------------------- C23
\* Permutation number pi gives every position of the line a value that is
\* a candidate of the cell there.
FitsCandidates(pi, byRow, line) ==
    \A i \in 0..(Size - 1) :
        At(At(Perms, pi), i) \in Allowed[CellAt(byRow, line, i)[1]][CellAt(byRow, line, i)[2]]

\* The positions of a list whose entries fit the candidate sets of the line.
Kept(list, byRow, line) == {k \in 1..Len(list) : FitsCandidates(list[k], byRow, line)}

\* C23: after TrimPermsFromAllowed every present row or column list holds
\* exactly those of its previous entries whose permutation gives every
\* position of the line a candidate of its cell, in their previous order; an
\* absent list stays absent; candidate sets, grid and the table of
\* permutations are unchanged; the call returns true exactly when some list
\* lost an entry.
C23_ExactFilter ==
    [][last'.op = "TrimPermsFromAllowed" =>
          /\ \A byRow \in BOOLEAN, line \in 0..(Size - 1) :
                LET old == IF byRow THEN RowPerms[line] ELSE ColPerms[line]
                    new == IF byRow THEN RowPerms'[line] ELSE ColPerms'[line]
                    K == Kept(old.val, byRow, line)
                IN  /\ new.nil = old.nil
                    /\ Len(new.val) = Cardinality(K)
                    /\ \A k \in K : new.val[Cardinality({x \in K : x <= k})] = old.val[k]
          /\ UNCHANGED <<Grid, Allowed, NumEmpty, Perms, Observers, ObsSorted, Size>>
          /\ last'.ret <=>
                \E line \in 0..(Size - 1) :
                    \/ Len(RowPerms'[line].val) < Len(RowPerms[line].val)
                    \/ Len(ColPerms'[line].val) < Len(ColPerms[line].val)]_vars

\* TrimPermsFromAllowed has just returned true: some line has no list, and
\* some list has entries left, fewer than the permutations its observers
\* admit, the first and the last of its line's fitting permutations not
\* being neighbours in the table.
C23_Witness ==
    /\ last.op = "TrimPermsFromAllowed" /\ last.ret
    /\ \E line \in 0..(Size - 1) : RowPerms[line].nil \/ ColPerms[line].nil
    /\ \E line \in 0..(Size - 1) :
          /\ ~RowPerms[line].nil
          /\ Len(RowPerms[line].val) >= 2
          /\ Len(RowPerms[line].val)
                < Len(PermsForObs(Board, ObsSorted[2 * line], ObsSorted[2 * line + 1]).val)
          /\ RowPerms[line].val[Len(RowPerms[line].val)] - RowPerms[line].val[1]
                >= Len(RowPerms[line].val)

\* ---------------------------------------------------------------------- C24
\* The value the input pre-fills cell x with (0: none).
Prefilled(x) == inputs[x[1] + 1][x[2] + 1]

\* The pre-filled cells of the input hold no value twice in a row or column.
DistinctPrefill ==
    \A x \in Cells, y \in Cells :
        (x # y /\ (x[1] = y[1] \/ x[2] = y[2]) /\ Prefilled(x) # EMPTY)
            => Prefilled(x) # Prefilled(y)

\* No non-zero value occurs twice in a row or in a column of the grid.
DistinctLines ==
    \A x \in Cells, y \in Cells :
        (x # y /\ (x[1] = y[1] \/ x[2] = y[2]) /\ Grid[x[1]][x[2]] # EMPTY)
            => Grid[x[1]][x[2]] # Grid[y[1]][y[2]]

\* The grid is a Latin square of 1..N.
LatinSquare == DistinctLines /\ \A x \in Cells : Grid[x[1]][x[2]] \in 1..Size

\* From distinct pre-filled cells, a filled cell keeps its value in every
\* step after the construction.
FilledCellsStay ==
    [][(DistinctPrefill /\ pc # "start") =>
          \A x \in Cells : Grid[x[1]][x[2]] # EMPTY => Grid'[x[1]][x[2]] = Grid[x[1]][x[2]]]_vars

\* C24 as claimed: from pre-filled cells without a value twice in a line, no
\* state of AutoSolve has a non-zero value twice in a row or column, filled
\* cells are never changed or emptied, and whenever Solved() succeeds after
\* AutoSolve the grid is a Latin square of 1..N.
C24_Original ==
    /\ []((DistinctPrefill /\ pc \notin {"start", "panic"}) => DistinctLines)
    /\ FilledCellsStay
    /\ []((DistinctPrefill /\ pc = "done" /\ last.err = "nil") => LatinSquare)

\* C24 as amended: from pre-filled cells without a value twice in a line, no
\* state of AutoSolve has a non-zero value twice in a row or column, filled
\* cells are never changed or emptied, and every grid value is a value of
\* 1..N or the value its cell was pre-filled with.  Whenever Solved()
\* succeeds after AutoSolve the grid has no empty cell and no value twice in
\* a line; it is a Latin square of 1..N exactly when every pre-filled value
\* lies in 1..N (the values of the input are not checked against N).
C24_Amended ==
    /\ []((DistinctPrefill /\ pc \notin {"start", "panic"}) =>
            /\ DistinctLines
            /\ \A x \in Cells :
                  /\ Prefilled(x) # EMPTY => Grid[x[1]][x[2]] = Prefilled(x)
                  /\ Grid[x[1]][x[2]] \in (0..Size) \cup {Prefilled(x)})
    /\ FilledCellsStay
    /\ []((DistinctPrefill /\ pc = "done" /\ last.err = "nil") =>
            /\ \A x \in Cells : Grid[x[1]][x[2]] # EMPTY
            /\ LatinSquare <=> \A x \in Cells : Prefilled(x) \in 0..Size)

\* AutoSolve has ended Solved on a puzzle with pre-filled cells, having
\* filled the other cells itself: the grid is a Latin square.
C24_Witness ==
    /\ pc = "done" /\ last.err = "nil" /\ Size >= 3 /\ LatinSquare
    /\ \E x \in Cells, y \in Cells :
          /\ x[1] = y[1] /\ x # y
          /\ Prefilled(x) # EMPTY /\ Prefilled(y) = EMPTY

=============================================================================
